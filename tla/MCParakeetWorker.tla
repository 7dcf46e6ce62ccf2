---------------------------- MODULE MCParakeetWorker ----------------------------
(* Three uploads, and one worker that is replaced once.                      *)
EXTENDS ParakeetWorker

MCMaxRestarts == 1
=============================================================================
