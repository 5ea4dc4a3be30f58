---------------------------- MODULE MCOsnmaDsm ----------------------------
(* Instances of OsnmaDsm for TLC.                                          *)
EXTENDS OsnmaDsm

Message(id, nmas, header, nb_index, ks_index) ==
    [dsm_id |-> id, nmas |-> nmas, header |-> header,
     nb_index |-> nb_index, ks_index |-> ks_index, pkid |-> 1]

Keys == [pkid \in {1} |-> "ECDSA_SHA256"]

(* A message that must not be used, then two of seven blocks each with the *)
(* same identifier.                                                        *)
SameLength ==
    <<Message(1, 3, "dont_use", 1, 0),
      Message(2, 1, "test", 1, 0),
      Message(2, 2, "operational", 1, 0)>>
=============================================================================
