---------------------------- MODULE MCAndroidApp ----------------------------
(* Small instances of AndroidApp for TLC; the bounds are in the .cfg files. *)
EXTENDS AndroidApp
=============================================================================
