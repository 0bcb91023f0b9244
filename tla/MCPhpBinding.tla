----------------------------- MODULE MCPhpBinding -----------------------------
(* An instance of PhpBinding for TLC.  The first process is a program, and
   calls the server by another name; the second may run as a script.  What a
   script asks for changes nothing that a program sees, and depends only on
   how far its database is made, so it may as well wait for the session of
   the other process to end, and the other one until the script is closed. *)
EXTENDS PhpBinding

CONSTANTS p1, p2, d1, d2, r1, r2

TwoNames == [p \in Program |-> IF p = p1 THEN "localhost" ELSE "host"]

Symmetry == Permutations(Database) \cup Permutations(Row)

Untouched == \A p \in Script : script[p].reply \in {None, Error} /\ session[p].linked \subseteq {"folder", "tag"}

MCNext ==
  \/ \E p \in Program : ProgramStep(p) /\ (p \in Script \/ Untouched)
  \/ \E p \in Script : ScriptStep(p) /\ \/ ~script[p].open
                                        \/ ~script'[p].open
                                        \/ \A q \in Program \ {p} : session[q] = NoSession

MCSpec == PhpInit /\ [][MCNext]_phpVars
=============================================================================
