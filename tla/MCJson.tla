------------------------------- MODULE MCJson -------------------------------
(***************************************************************************)
(* Json for TLC: all short texts, objects with a member and more, arrays   *)
(* with too many members, and objects whose entries are more than an int   *)
(* can count.                                                              *)
(***************************************************************************)
EXTENDS JsonReference

Member(name) == <<"quote">> \o name \o <<"quote", ":", "lit", "comma">>

SeedTexts ==
    {<<"lbrace">> \o Member(<<"x">>) \o <<"quote">>,
     <<"lbrace">> \o Member(<<"x">>) \o Member(<<"x">>) \o <<"quote">>,
     <<"[", "lit", "comma", "lit", "comma", "lit", "comma", "lit">>}
=============================================================================
