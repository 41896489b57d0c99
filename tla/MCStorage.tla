------------------------------ MODULE MCStorage -----------------------------
(* An instance of Storage for TLC: the folders of the user are next to the  *)
(* root and below another folder.                                           *)
EXTENDS Storage

MCNames == {"phone", "card", "files", "photos", "time4popcorn", "cache", "downloads"}

MCUserDirs == {<<"phone", "photos">>, <<"card", "photos">>}
=============================================================================
