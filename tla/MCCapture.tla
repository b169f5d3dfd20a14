----------------------------- MODULE MCCapture ------------------------------
(***************************************************************************)
(* Capture for TLC.  One configuration is the other one without its last   *)
(* lines, a remark inside it that reads like a banner and a blank line     *)
(* among them; the /user prints show one account, under the titles of its  *)
(* columns, or two with a blank line between them.                         *)
(***************************************************************************)
EXTENDS Capture

Live(says) == Line("live", <<says>>)

MCConfigs ==
    { <<Live("bridge")>>,
      <<Live("bridge"), Comment(<<"routeros", "note">>), Blank, Live("address"), Blank>> }
MCAccounts ==
    { <<Comment(<<"columns">>), Live("admin"), Blank>>,
      <<Live("admin"), Blank, Live("guest"), Blank>> }
=============================================================================
