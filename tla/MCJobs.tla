-------------------------------- MODULE MCJobs ------------------------------
\* The job manager and the output of one job for TLC.
EXTENDS JobsAndOutput, TLC
=============================================================================
