----------------------------- MODULE MCKLEMgmt -----------------------------
(***************************************************************************)
(* Instances of KLEMgmt for TLC.                                           *)
(***************************************************************************)
EXTENDS KLEMgmtProps, TLC

Tag(c) == IF c = "zero" THEN "tag of zero" ELSE "tag of k1"
MCContents == {"zero", "k1"}
MCTags == {"notag"} \cup {Tag(c) : c \in MCContents}
Genuine == {<<"k1", Tag("k1")>>}
AnyImage == {<<"k1", Tag("k1")>>, <<"k1", "notag">>}

\* Provisioning Inputs and MDHs of images.
PIEnc  == [ZeroMDH EXCEPT !.Machine = "M_ENC", !.MachinePolicy = {0, 1}, !.UsagePolicy = {1, 2}]
PISig  == [PIEnc EXCEPT !.Machine = "M_SIG", !.MachinePolicy = {}]
PIRand == [PIEnc EXCEPT !.Machine = "M_KEY", !.KeyType = 2]
Image  == [PIEnc EXCEPT !.State = 2, !.SCProtection = {0}, !.AuxDataLen = 3,
                        !.Locality.s0 = 1]
Short  == [PIEnc EXCEPT !.StateExtension = 4, !.AuxDataLen = 2, !.KeyType = 0]
PPI    == [PIRand EXCEPT !.State = PPIExporting]
SysFmt == [PISig EXCEPT !.Version = 3, !.AuxDataLen = 1]
Alien  == [PIEnc EXCEPT !.Machine = Unimplemented]
Dated  == [PIEnc EXCEPT !.ExpirationDate = 2, !.UsagePolicy = {2}]

ManageMDHs   == {PIRand, Image, Short, PPI, SysFmt, Alien}
RestrictMDHs == {[Dated EXCEPT !.Locality.s2 = 1],
                 [PISig EXCEPT !.UsagePolicy = {}, !.ExpirationDate = 1, !.Locality.s2 = 2, !.Locality.s4 = 1, !.Locality.flags = {1}]}
ImageMDHs    == {Image}
UseMDHs      == {Dated, PISig}
UseAndLevelMDHs == {Dated, Image, [Image EXCEPT !.SCProtection = {1}]}

\* Requests of kl.rstr*.
Ask == [part |-> "h", MachinePolicy |-> {0, 1}, UsagePolicy |-> 0..4, ExpirationDate |-> 0,
        Locality |-> NoLocality, other |-> FALSE]
MCRequests == { [Ask EXCEPT !.part = "l", !.MachinePolicy = {1}],
                [Ask EXCEPT !.part = "v", !.UsagePolicy = {1, 3}, !.ExpirationDate = 1],
                [Ask EXCEPT !.ExpirationDate = 3, !.Locality.s2 = 2],
                [Ask EXCEPT !.Locality.s4 = 1, !.Locality.flags = {1}],
                [Ask EXCEPT !.Locality.s4 = 2],
                [Ask EXCEPT !.other = TRUE] }
UseRequests == { [Ask EXCEPT !.ExpirationDate = 1], [Ask EXCEPT !.ExpirationDate = 3, !.UsagePolicy = {1}] }
AskNoPolicy == {[Ask EXCEPT !.part = "l", !.MachinePolicy = {}]}
AskOtherBoot == {[Ask EXCEPT !.Locality.s4 = 1], [Ask EXCEPT !.Locality.s4 = 2]}
NoRequests == {}
AllLST == {LST}
SomeLST == {LST \ {0}, LST \ {0, 1, 2}}
LevelZero == {{}}
NoLevels == {}
LevelOne == {{1}}
ZeroAndAuth == {{}, {0}}
AllClocks == {0, NoClock}
NoClocks == {NoClock}
=============================================================================
