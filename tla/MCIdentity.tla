----------------------------- MODULE MCIdentity -----------------------------
(***************************************************************************)
(* Two password accounts, one OIDC account, one desktop handoff, and four  *)
(* requests out of one of the mixes below.                                 *)
(***************************************************************************)
EXTENDS Identity, TLC

CONSTANTS r1, r2, r3, r4, ann, bob, oda, desk

Admin(by, op, u) == [kind |-> "admin", by |-> by, op |-> op, user |-> u]
Log(u, p) == [kind |-> "login", user |-> u, pass |-> p]
Desktop == [kind |-> "desktop", user |-> oda, handoff |-> desk]
Finish(y) == [kind |-> "finish", handoff |-> desk, approve |-> y]
Poll == [kind |-> "exchange", handoff |-> desk]

MCScenarios ==
    {{Admin(ann, "demote", bob), Admin(bob, "demote", ann), Admin(ann, "disable", bob),
      Admin(bob, "disable", ann), Admin(ann, "promote", bob), Admin(ann, "demote", ann)},
     {Log(bob, 0), Admin(ann, "disable", bob), Admin(ann, "enable", bob), Admin(ann, "reset", bob),
      Admin(ann, "create", bob), [kind |-> "logout", user |-> bob]},
     {Log(bob, 0), Log(bob, 1), Admin(ann, "reset", ann)},
     {[kind |-> "oidc", user |-> oda], Admin(ann, "disable", oda), Admin(ann, "reset", oda),
      Admin(ann, "promote", oda)},
     {Desktop, Finish(TRUE), Finish(FALSE), Poll, Admin(ann, "disable", oda),
      Admin(ann, "revoke", oda)}}

MCSymmetry == Permutations(Request)
=============================================================================
