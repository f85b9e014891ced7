--------------------------- MODULE MCCompileCache ---------------------------
(* Instances of CompileCache for TLC. *)
EXTENDS CompileCache, TLC

CONSTANTS p1, p2, t1, t2, t3

MCThreads == {t1, t2, t3}

\* All threads in one process.
MCOneProc == [t \in Threads |-> p1]

\* One process with two threads and one with a single thread.
MCTwoProcs == [t \in Threads |-> IF t = t3 THEN p2 ELSE p1]

\* ep.context_enable, a cache_dir, in memory, only with NPU offload.
Opt(e, d, m, s) == [enable |-> e, dir |-> d, mem |-> m, strict |-> s]

\* Cache on disk in a directory of the caller's.
MCDisk == {Opt(FALSE, TRUE, FALSE, FALSE)}

\* On disk, with the CPU-only check or embedded in the model afterwards.
MCDiskEmbed == {Opt(FALSE, TRUE, FALSE, TRUE), Opt(TRUE, FALSE, FALSE, FALSE)}

\* Every way to be on disk or in memory, now or after a read-back: embedded,
\* from disk unless the document says otherwise, on disk with the option to be
\* in memory, in memory.
MCModes == {Opt(TRUE, FALSE, FALSE, FALSE), Opt(FALSE, TRUE, TRUE, FALSE),
            Opt(FALSE, FALSE, TRUE, FALSE)}

\* Strict sessions.
MCStrict == {Opt(FALSE, TRUE, FALSE, TRUE)}

\* The two threads of p1 are interchangeable.
MCSymmetry == Permutations({t1, t2})

\* For properties that read neither spoilt nor the versions: nobody reads again
\* what an idle thread was asked, and returned, and of a context.json only the
\* meta_defs and the mode matter, the caller's key and settings being put back.
MCView ==
  <<pc, lock, ctx, memFile, failed, mixed, mtx, flock, sessions, faults,
    file.state, file.doc.defs, file.doc.mem,
    [t \in Threads |-> IF pc[t] = "idle" THEN << >> ELSE <<asked[t], eps[t]>>]>>

\* The processes were built from different commits.
MCVersions == [p \in Procs |-> p]
=============================================================================
