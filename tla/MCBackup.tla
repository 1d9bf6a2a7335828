------------------------------- MODULE MCBackup -------------------------------
(* BackupVerify for TLC: a calendar of three-hour days, two-day weeks and two-week
   years, so that every slot occurs and the hourly and daily slots recur.        *)
EXTENDS BackupVerify

\* Nothing is stated of a verification once something has failed, and it changes
\* nothing: it need not be followed up.
HealthyVerifications == verifying # None => healthy
=============================================================================
