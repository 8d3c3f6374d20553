--------------------------------- MODULE Arena ---------------------------------
(***************************************************************************)
(* How the scratch arenas fill.  An arena is memory that fills from one    *)
(* end; a scope remembers how full it was, and dropping the scope frees    *)
(* everything allocated since.  Scopes of one arena nest, and only the     *)
(* newest may be used.  The last allocation of an arena can grow and       *)
(* shrink where it is.  A debug build scribbles over memory it hands out   *)
(* and takes back, and over some bytes behind it.                          *)
(***************************************************************************)
EXTENDS ArenaState, Sequences

vars == <<arenas, live>>

Pool == 1 .. 2
NewArena == [offset |-> 0, commit |-> 0, memory |-> [x \in {} |-> Junk], scopes |-> <<>>]

-----------------------------------------------------------------------------
\* n rounded down, and up, to a multiple of m.
RoundDown(n, m) == n - (n % m)
RoundUp(n, m) == RoundDown(n + m - 1, m)

Put(m, beg, end, value) == [x \in DOMAIN m |-> IF beg <= x /\ x < end THEN value ELSE m[x]]

\* What a debug build does to the bytes from beg to end and to some behind them.
Scribble(m, beg, end) == IF Scribbles THEN Put(m, beg, end + Slack, Junk) ELSE m

\* release::Arena::alloc_raw and alloc_raw_bump: the arena with bytes more, from beg on, or
\* nothing when they do not fit or the system refuses to commit them.
AllocRaw(a, bytes, alignment, granted) ==
  LET beg == RoundUp(Base + a.offset, alignment) - Base
      end == beg + bytes
      commit == RoundUp(end, ArenaChunk)
      committed == [x \in 0 .. commit - 1 |-> IF x < a.commit THEN a.memory[x] ELSE Junk]
      Taken(size, m) ==
        {[arena |-> [a EXCEPT !.offset = end, !.commit = size, !.memory = Scribble(m, a.offset, end)],
          beg |-> beg]}
  IN IF bytes = 0 THEN {[arena |-> a, beg |-> a.offset]}
     ELSE IF end > ArenaCapacity THEN {}
     ELSE IF end <= a.commit THEN Taken(a.commit, a.memory)
     ELSE IF granted THEN Taken(commit, committed) ELSE {}

\* release::Arena::reset: a debug build scribbles over what is freed.
Reset(a, to) ==
  [a EXCEPT !.offset = to,
            !.memory = IF a.offset > to THEN Scribble(a.memory, to, a.offset) ELSE a.memory]

\* Mutant: the assertion of a release build that trusts its callers.
MayUseAnyScope(a, scope) == scope <= Len(arenas[a].scopes)

\* debug::Arena::delegate_target: the assertion that no newer scope is open.
MayUse(a, scope) == scope = Len(arenas[a].scopes)

-----------------------------------------------------------------------------
Init == arenas = [a \in Pool |-> NewArena] /\ live = {}

\* scratch_arena: the first arena, unless the caller has its output there.
Open(conflict) ==
  LET a == IF conflict = 1 THEN 2 ELSE 1
  IN /\ conflict # 0 => arenas[conflict].scopes # <<>>
     /\ Len(arenas[1].scopes) + Len(arenas[2].scopes) < MaxScopes
     /\ arenas' = [arenas EXCEPT ![a].scopes = Append(@, arenas[a].offset)]
     /\ UNCHANGED live

\* ScratchArena::drop, then that of its Arena.  Nothing allocated in the scope is in use.
Drop(a) ==
  LET scope == Len(arenas[a].scopes)
  IN /\ scope > 0
     /\ arenas' = [arenas EXCEPT ![a] =
          [Reset(arenas[a], arenas[a].scopes[scope]) EXCEPT
             !.scopes = SubSeq(@, 1, scope - 1)]]
     /\ live' = {r \in live : ~(r.arena = a /\ r.scope = scope)}

\* Arena::allocate, alloc_uninit and alloc_uninit_slice, whose caller then writes.
Allocate(a, scope, bytes, alignment, granted) ==
  /\ MayUse(a, scope)
  /\ Values \ {r.value : r \in live} # {}
  /\ \E taken \in AllocRaw(arenas[a], bytes, alignment, granted) :
       LET value == CHOOSE v \in Values : \A r \in live : r.value # v
       IN
       /\ arenas' = [arenas EXCEPT ![a] =
            [taken.arena EXCEPT !.memory = Put(@, taken.beg, taken.beg + bytes, value)]]
       /\ live' = live \cup
            {[arena |-> a, scope |-> scope, beg |-> taken.beg, end |-> taken.beg + bytes,
              alignment |-> alignment, value |-> value]}

AtEnd(r, alignment) ==
  (Base + r.beg) % alignment = 0 /\ r.end = arenas[r.arena].offset

\* The bytes of r once they were copied to where it begins now.
Copied(m, r, beg, n) ==
  [x \in DOMAIN m |-> IF beg <= x /\ x < beg + n THEN m[r.beg + (x - beg)] ELSE m[x]]

Resized(r, beg, bytes, alignment) ==
  [r EXCEPT !.beg = beg, !.end = beg + bytes, !.alignment = alignment]

\* Arena::grow: in place, or to another place.  The caller then writes what is new.
Grow(r, bytes, alignment, granted) ==
  LET a == arenas[r.arena]
      old == r.end - r.beg
      Becomes(t, m, beg) ==
        /\ arenas' = [arenas EXCEPT ![r.arena] =
             [t.arena EXCEPT !.memory = Put(m, beg + old, beg + bytes, r.value)]]
        /\ live' = (live \ {r}) \cup {Resized(r, beg, bytes, alignment)}
  IN /\ MayUse(r.arena, r.scope)
     /\ bytes >= old
     /\ \/ /\ AtEnd(r, alignment)
           /\ \E t \in AllocRaw(a, bytes - old, 1, granted) : Becomes(t, t.arena.memory, r.beg)
        \/ /\ ~AtEnd(r, alignment)
           /\ \E t \in AllocRaw(a, bytes, alignment, granted) :
                Becomes(t, Copied(t.arena.memory, r, t.beg, old), t.beg)

\* Arena::shrink: to another place if it is to be aligned better; otherwise what is at the end
\* of the arena gives its rest back.
Shrink(r, bytes, alignment, granted) ==
  LET a == arenas[r.arena]
      Becomes(arena, beg) ==
        /\ arenas' = [arenas EXCEPT ![r.arena] = arena]
        /\ live' = (live \ {r}) \cup {Resized(r, beg, bytes, alignment)}
  IN /\ MayUse(r.arena, r.scope)
     /\ bytes <= r.end - r.beg
     /\ \/ /\ (Base + r.beg) % alignment # 0
           /\ \E t \in AllocRaw(a, bytes, alignment, granted) :
                Becomes([t.arena EXCEPT !.memory = Copied(t.arena.memory, r, t.beg, bytes)], t.beg)
        \/ /\ AtEnd(r, alignment)
           /\ Becomes([a EXCEPT !.offset = r.beg + bytes], r.beg)
        \/ /\ (Base + r.beg) % alignment = 0 /\ r.end # a.offset
           /\ Becomes(a, r.beg)

\* Arena::deallocate does nothing.
Deallocate(r) == live' = live \ {r} /\ UNCHANGED arenas

\* init: new arenas, while no scope is open.
Reinitialize ==
  /\ \A a \in Pool : arenas[a].scopes = <<>>
  /\ arenas' = [a \in Pool |-> NewArena]
  /\ UNCHANGED live

Next ==
  \/ \E conflict \in {0} \cup Pool : Open(conflict)
  \/ \E a \in Pool : Drop(a)
  \/ \E a \in Pool : \E scope \in DOMAIN arenas[a].scopes :
       \E bytes \in Sizes, alignment \in Alignments, granted \in BOOLEAN :
         Allocate(a, scope, bytes, alignment, granted)
  \/ \E r \in live, bytes \in Sizes, alignment \in Alignments, granted \in BOOLEAN :
       \/ Grow(r, bytes, alignment, granted)
       \/ Shrink(r, bytes, alignment, granted)
  \/ \E r \in live : Deallocate(r)
  \/ Reinitialize

Spec == Init /\ [][Next]_vars

=============================================================================
