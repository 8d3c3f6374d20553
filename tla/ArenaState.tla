------------------------------- MODULE ArenaState -------------------------------
(***************************************************************************)
(* The two scratch arenas of a thread: what they are made with, their      *)
(* state, and what they owe their users.  Apart from the steps, in Arena,  *)
(* so that the module of a run that has other components may extend it.    *)
(*                                                                         *)
(* Addresses count from the base of an arena.  Every allocation holds a    *)
(* value of its own in all its bytes.                                      *)
(***************************************************************************)
EXTENDS Integers

CONSTANTS
  ArenaChunk,     \* ALLOC_CHUNK_SIZE
  ArenaCapacity,  \* of an arena: what init or scratch_arena reserves
  Base,           \* the address of its first byte
  Slack,          \* how far a debug build scribbles on: 128
  Scribbles,      \* cfg!(debug_assertions)
  Sizes, Alignments,  \* bound: what is asked for
  Values,         \* bound: one for each live allocation
  MaxScopes       \* bound: open at a time

Junk == 0

\* Arena::new rounds the capacity up to whole chunks; a layout has a positive alignment.
ASSUME ArenaAssumption ==
  /\ ArenaChunk \in Nat \ {0} /\ ArenaCapacity \in Nat /\ Base \in Nat /\ Slack \in Nat
  /\ ArenaCapacity % ArenaChunk = 0
  /\ Sizes \subseteq Nat \ {0} /\ Alignments \subseteq Nat \ {0}
  /\ Junk \notin Values
VARIABLES
  arenas,  \* S_SCRATCH: offset, commit, memory and the open scopes' ScratchArena.offset
  live     \* what is allocated and in use

\* What is allocated is aligned, committed, and holds what its owner wrote: no other
\* allocation, no scope that closes and no scribbling reaches it.
AllocationsHold ==
  \A r \in live :
    /\ (Base + r.beg) % r.alignment = 0
    /\ r.end <= arenas[r.arena].commit
    /\ \A x \in r.beg .. r.end - 1 : arenas[r.arena].memory[x] = r.value
=============================================================================
