------------------------- MODULE MCDataRecipeJobs -------------------------
\* A small instance of DataRecipeJobs.
EXTENDS DataRecipeJobs
CONSTANTS s1
=============================================================================
