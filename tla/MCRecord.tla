------------------------------ MODULE MCRecord ------------------------------
(* The recorder on small instances: RecordSerial.cfg, RecordOverlap.cfg,   *)
(* RecordReturns.cfg and RecordRace.cfg.                                   *)
EXTENDS RecordService, TLC

(* The control threads are interchangeable.                                *)
Symmetry == Permutations(Ctl)
=============================================================================
