----------------------------- MODULE MCOutreach -----------------------------
(***************************************************************************)
(* Instances of Outreach for TLC: one lead, one follow-up.  An automatic   *)
(* reply changes nothing and a refusal is an answer with the suppression   *)
(* of a request to stop, so neither is among the mails that arrive.  A     *)
(* colleague may answer, and a bounce may quote the thread alone.          *)
(***************************************************************************)
EXTENDS Outreach

MostMails ==
  [kind : {"answer", "referral", "stop", "bounce", "away"}, named : {TRUE}]
    \cup [kind : {"answer", "bounce"}, named : {FALSE}]

=============================================================================
