----------------------- MODULE MCFilesystemPublication -----------------------
(* Instances of FilesystemPublication: cooperating processes, and one        *)
(* process with a writer outside.                                            *)
EXTENDS FilesystemPublication, TLC

CONSTANTS n1, n2, f1, f2, f3, f4, p1, p2, o1, o2, o3, o4

OneFile == n1 :> f1

\* Two processes: a copy of n1 to n2 and a trash of n1 in one, writes of
\* n1 and n2 in the other.
SharedKind == o1 :> "copy" @@ o2 :> "write" @@ o3 :> "trash" @@ o4 :> "write"
SharedTarget == o1 :> n2 @@ o2 :> n1 @@ o3 :> n1 @@ o4 :> n2
SharedSource == o1 :> n1 @@ o2 :> n1 @@ o3 :> n1 @@ o4 :> n1
SharedProcess == o1 :> p1 @@ o2 :> p2 @@ o3 :> p1 @@ o4 :> p2

\* One process: a directory, a write and a trash, with a writer outside.
OutsideKind == o1 :> "mkdir" @@ o2 :> "write" @@ o3 :> "trash"
OutsideTarget == o1 :> n2 @@ o2 :> n1 @@ o3 :> n1
OutsideSource == o1 :> n1 @@ o2 :> n1 @@ o3 :> n1
OutsideProcess == o1 :> p1 @@ o2 :> p1 @@ o3 :> p1

\* One copy with a writer outside.
RaceKind == o1 :> "copy"
RaceTarget == o1 :> n2
RaceSource == o1 :> n1
RaceProcess == o1 :> p1
=============================================================================
