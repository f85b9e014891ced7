---------------------------- MODULE MCEpContext ----------------------------
(* Instances of EpContext for TLC: two custom ops with a file of their own *)
(* and one in common, context.json between them in the archive.            *)
EXTENDS EpContext, TLC

CONSTANTS s1, s2, key, fileA, json, fileX, fileZ

MCFilesOf == <<{fileA, fileX}, {fileX, fileZ}>>
MCFileOrder == <<fileA, json, fileX, fileZ>>

\* Another model's entry, and one of two files with the same contents.
MCSharedOrder == <<{}, {fileA, fileZ}, {json}, {fileX}>>
=============================================================================
