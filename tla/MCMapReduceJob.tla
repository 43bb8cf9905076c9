--------------------------- MODULE MCMapReduceJob ---------------------------
(* Jobs of one or two files, for the sets of workers of the configurations. *)
EXTENDS MapReduceJob, TLC

CONSTANTS f1, f2

TwoFiles == <<f1, f2>>
OneFile == <<f1>>
NoNames == {}
FirstHang == {1}
NoHang == {}
WorkerSymmetry == Permutations(MapWorkers) \cup Permutations(ReduceWorkers)
=============================================================================
