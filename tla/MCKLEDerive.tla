---------------------------- MODULE MCKLEDerive ----------------------------
(***************************************************************************)
(* Instance of KLEDerive for TLC.                                          *)
(***************************************************************************)
EXTENDS KLEDeriveProps

CC == [ZeroMDH EXCEPT !.State = 1, !.UsagePolicy = {2, 3}, !.Transparent = 1, !.Machine = "M_KEY",
                      !.MachinePolicy = {0}]
KEM == [CC EXCEPT !.Machine = "M_KEM", !.State = 2, !.UsagePolicy = {2}, !.Transparent = 0,
                  !.SCProtection = {0}, !.ExpirationDate = 1]
SealedKEM == [KEM EXCEPT !.Locality.s0 = 2, !.ExpirationDate = 0]
Key16  == [CC EXCEPT !.SCProtection = {0}, !.Transparent = 0, !.Locality.s0 = 1, !.ExpirationDate = 1]
Skid   == [CC EXCEPT !.KeyType = 1, !.Transparent = 0]
Stream == [CC EXCEPT !.Machine = "M_ENC", !.UsagePolicy = {2, 4}, !.SCProtection = {0}, !.Transparent = 0]
Hash   == [CC EXCEPT !.Machine = "M_HASH"]
Sig    == [CC EXCEPT !.Machine = "M_SIG"]
Halted == [Sig EXCEPT !.State = 3, !.MachineUse = 2]
HashReady == [Hash EXCEPT !.SCProtection = {0}, !.Transparent = 0]
MCProvided == {<<KEM, 0>>, <<SealedKEM, 1>>, <<Key16, 0>>, <<CC, 0>>, <<Skid, 0>>,
               <<Stream, 0>>, <<Sig, 0>>, <<Halted, 0>>, <<HashReady, 0>>}
SystemKey == [CC EXCEPT !.UsagePolicy = {2}, !.Locality.s0 = 3, !.Transparent = 0]
MCsks == {[machines |-> {"M_KEY"}, mdh |-> SystemKey], [machines |-> {}, mdh |-> SystemKey],
          [machines |-> {"M_KEY"}, mdh |-> [SystemKey EXCEPT !.SCProtection = {1}]]}
=============================================================================
