--------------------------- MODULE MCStateProofs ---------------------------
(***************************************************************************)
(* Chains of up to three blocks with one message.  Paths of two nibbles,   *)
(* chosen so that slots of one account share a branch or an extension.     *)
(***************************************************************************)
EXTENDS StateProofJobs, TLC

CONSTANT m1

MCNibble == 0..2
MCMessages == {m1}
MCAddressPath ==
  "oracle" :> <<0, 1>> @@ "bridge" :> <<0, 2>> @@ "passer" :> <<1, 1>> @@
  "nobody" :> <<2, 0>>

MCSlotPath ==
  <<"l2Outputs", 0>> :> <<0, 0>> @@ <<"l2Outputs", 1>> :> <<0, 1>> @@
  <<"l2Outputs", 2>> :> <<1, 0>> @@ <<"l2Outputs", 3>> :> <<1, 2>> @@
  <<"slot", 7>> :> <<2, 2>> @@ <<"mapping", m1, 0>> :> <<2, 1>>

\* The oracle and the message passer keep a word from the start, the bridge
\* has no storage until its first message.
MCGenesisL1 ==
  "oracle" :> (<<"slot", 7>> :> <<"number", 1>>) @@ "bridge" :> <<>>

MCGenesisL2 == "passer" :> (<<"slot", 7>> :> <<"number", 1>>)

MCRequests ==
  {[address |-> address, slots |-> slots] :
     address \in {"oracle", "bridge", "nobody"},
     slots \in {{<<"l2Outputs", 0>>}, {<<"l2Outputs", 2>>},
               {<<"mapping", m1, 0>>}}}
=============================================================================
