--------------------------- MODULE FinalityFollower ---------------------------
(***************************************************************************)
(* The abstract specification of an on-chain light client: a chain whose   *)
(* finality only moves forward, and a record of some of its finalized      *)
(* slots that starts from one of them and grows by one later slot at a     *)
(* time.  How the record comes to trust a slot is not its concern.         *)
(***************************************************************************)
EXTENDS Integers

CONSTANT Slot

VARIABLES
  finalizedTip,  \* the latest slot the chain has finalized
  accepted       \* the slots the client vouches for

followerVars == <<finalizedTip, accepted>>

Init ==
  /\ finalizedTip = 0
  /\ accepted = {}

\* The chain finalizes a later slot.
Finalize ==
  /\ \E slot \in Slot : slot > finalizedTip /\ finalizedTip' = slot
  /\ UNCHANGED accepted

\* The client is given a finalized slot to start from.
Start ==
  /\ accepted = {}
  /\ \E slot \in Slot : slot <= finalizedTip /\ accepted' = {slot}
  /\ UNCHANGED finalizedTip

\* The client vouches for one more finalized slot, later than all it has.
Follow ==
  /\ accepted # {}
  /\ \E slot \in Slot :
       /\ slot <= finalizedTip
       /\ \A earlier \in accepted : earlier < slot
       /\ accepted' = accepted \cup {slot}
  /\ UNCHANGED finalizedTip

Next == Finalize \/ Start \/ Follow

Spec == Init /\ [][Next]_followerVars
=============================================================================
