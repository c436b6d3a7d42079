------------------------------ MODULE MCCasts ------------------------------
(***************************************************************************)
(* For TLC: sessions in which any of three clients comes, goes and writes, *)
(* and sessions of four in which one writes while another reloads.         *)
(***************************************************************************)
EXTENDS MCCollabSession, SequencesExt

VARIABLE cast  \* who comes, who comes late, whose clients leave and who writes

Casts ==
    {[come |-> {a1, a2, b1}, late |-> {}, leave |-> {a1, a2, b1}, write |-> {a1, a2, b1}],
     [come |-> Handlers, late |-> {a1, c1}, leave |-> {a2}, write |-> {c1}],
     [come |-> Handlers, late |-> {a2, c1}, leave |-> {a1}, write |-> {c1}]}

CastInit == Init /\ cast \in Casts

\* In a step, only those come, leave and send operations whom the cast lets; who comes
\* late comes after somebody has left.
CastNext ==
    /\ Next /\ UNCHANGED cast
    /\ Handlers \ cast.leave \subseteq alive'
    /\ \A h \in Handlers \ cast.come : pc'[h] = "new"
    /\ alive = Handlers => \A h \in cast.late : pc'[h] = "new"
    /\ \A o \in DOMAIN sess' : Range(sess'[o].log) \subseteq cast.write

CastSpec == CastInit /\ [][CastNext]_<<vars, cast>>
=============================================================================
