------------------------ MODULE MCConfigurationAssets ------------------------
(* ConfigurationAssets for TLC.                                            *)
EXTENDS ConfigurationAssets, TLC

\* Workers and files are interchangeable (used in the run without liveness).
Interchangeable == Permutations(Workers) \cup Permutations(Objects)

=============================================================================
