------------------------------- MODULE Splicing -------------------------------
(***************************************************************************)
(* The two operations of a GapBuffer that everything above it is built     *)
(* from, on the contents as a sequence (src/src/buffer/gap_buffer.rs).     *)
(***************************************************************************)
EXTENDS Integers, Sequences

\* GapBuffer::replace, and allocate_gap with a deletion: the text t with the
\* n characters after offset off replaced by ins.
Splice(t, off, n, ins) ==
  SubSeq(t, 1, off) \o ins \o SubSeq(t, off + n + 1, Len(t))

\* GapBuffer::extract_raw: the n characters of t after offset off.
Extract(t, off, n) == SubSeq(t, off + 1, off + n)
=============================================================================
