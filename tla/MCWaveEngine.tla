---------------------------- MODULE MCWaveEngine ----------------------------
(* TLC instance of WaveEngine: a few tasks, two waves one after the other, so *)
(* that an executor left behind by the first can live during the second.      *)
EXTENDS WaveEngine

=============================================================================
