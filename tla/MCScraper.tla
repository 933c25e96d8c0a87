----------------------------- MODULE MCScraper -----------------------------
(* Small instances of Scraper for TLC.                                     *)
EXTENDS Scraper, TLC

CONSTANTS s1, s2, s3

\* A shift in each of two weeks, and one that the server cannot read.
TwoWeeks == s1 :> -1 @@ s2 :> 0 @@ s3 :> 1
\* While the script signs in, captures or gives up it does not depend on the server,
\* and but for the capture not on the portal: what they do then might as well
\* happen before or after.
ScriptAlone == pc \in SigningIn \cup {"capture", "close", "report"} /\ pc' = pc =>
    page' # page \/ (pc = "capture" /\ UNCHANGED <<account, shifts, log, req, dropped>>)

\* Only the shift of the earlier week moves.
OneMoves == \A s \in {s2, s3} : portal'[s] = portal[s]
=============================================================================
