--------------------------- MODULE MCFileAdmission ---------------------------
\* Instance of FileAdmission for TLC.
EXTENDS FileAdmission

CONSTANTS f1, f2, f3, r1

MCFiles == {f1, f2, f3}
MCFilesTwo == {f1, f2}
MCFirst == {f1}
MCSecond == {f2}
MCRealtimes == {r1}
=============================================================================
