------------------------------ MODULE MCAsyncJobs ------------------------------
(* Two jobs of one agent, polled at most twice, and one stop of the process.    *)
EXTENDS AsyncJobs

CONSTANTS j1, j2

MCJob == {j1, j2}

================================================================================
