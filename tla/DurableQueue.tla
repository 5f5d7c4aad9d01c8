---------------------------- MODULE DurableQueue ----------------------------
(***************************************************************************)
(* A persistent queue of numbered records, seen from what it would have    *)
(* after a power loss.  A record is kept from some moment before it is     *)
(* promised to some moment after its removal is asked for.                 *)
(***************************************************************************)
EXTENDS Naturals

VARIABLES kept,      \* the records on disk
          promised,  \* records the caller was told are safe
          released   \* records the caller has asked to remove

vars == <<kept, promised, released>>

Init == kept = {} /\ promised = {} /\ released = {}

Behind(s, t) == \A a \in s, b \in t : b.id < a.id

\* New records go behind every one that is kept; only released ones go, the oldest first.
KeptMoves ==
  \/ kept' = kept
  \/ LET added == kept' \ kept
         gone == kept \ kept'
     IN  /\ Behind(added, kept)
         /\ gone \subseteq released
         /\ Behind(kept \ gone, gone)

Promises == promised \subseteq promised' /\ promised' \ promised \subseteq kept'
Releases == released \subseteq released'

Next == KeptMoves /\ Promises /\ Releases

Spec == Init /\ [][Next]_vars
=============================================================================
