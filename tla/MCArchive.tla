----------------------------- MODULE MCArchive -------------------------------
(***************************************************************************)
(* Archive for TLC.  The texts of rows: one with a semicolon, one with an  *)
(* apostrophe, one with two.                                               *)
(***************************************************************************)
EXTENDS Archive

MCWritten == {"tenants", "devices", "device_samples", "device_updates"}
MCTexts == {<<SEMICOLON>>, <<QUOTE>>, <<QUOTE, QUOTE>>}
MCEnvFile == <<<<"word">>>>
=============================================================================
