------------------------------ MODULE Branches ------------------------------
(***************************************************************************)
(* The executable output sections and the branches in them: offsets of the *)
(* input sections, range extension thunks (thunks.cc) and code-shrinking   *)
(* relaxation (shrink-sections.cc).                                        *)
(*                                                                         *)
(* An input section is a record [size, align, rels, off]; off = -1 until   *)
(* it is placed.  A relocation is [off, kind, sym]: kind "call" is what    *)
(* is_func_call_rel accepts, "switch" a call that has to go through a      *)
(* thunk whatever the distance (ARM/Thumb, TOC/no-TOC interworking),       *)
(* "relax" a reference that shrink_section may shorten and "align" its     *)
(* alignment padding (sym is then the number of its bytes).                *)
(*                                                                         *)
(* A symbol is a number; syms gives [osec, idx, val, plt]: the output      *)
(* section and input section that define it (idx = 0: no input section,    *)
(* osec = <<>>: absolute), its offset there, and its PLT entry's address   *)
(* in the plt chunk (-1 if it has none).                                   *)
(***************************************************************************)
EXTENDS Segments

CONSTANTS BranchDistance,  \* branch_distance<E>
          SafetyMargin,    \* what it leaves of the reach of the instruction
          BatchSize, MaxThunkSize, ThunkAlign, ThunkHdrSize, ThunkSize,
          ThunkSmallSize,  \* a thunk entry whose target is near (ARM64)
          NearDistance,    \* ... that is, less than this many pages away
          GroupSize,       \* group_size of compute_section_size
          RelaxDistance,   \* the reach of the shortened instruction
          RelaxBytes       \* the bytes shortening saves

VARIABLE link              \* the input of the link; its field target is used here

needs_thunk == link.target \in {"arm64", "arm32", "ppc"}
NearThunks == link.target = "arm64"    \* ARM64 shortens thunk entries
PltThunks == link.target = "ppc"       \* calls to the PLT go through thunks

\* ranges::lower_bound: the first index in S, indices up to hi, or hi + 1
FirstIn(S, hi) == IF S = {} THEN hi + 1 ELSE Min(S)

\* Input sections are placed in groups, which start at a multiple of the
\* largest alignment in them.
compute_section_size(ms) ==
  LET n == Len(ms)
      First(i) == ((i - 1) \div GroupSize) * GroupSize + 1
      group(i) == First(i)..Min({First(i) + GroupSize - 1, n})
      pos[i \in 0..n] ==
        IF i = 0 THEN [ms |-> <<>>, size |-> 0]
        ELSE LET s == pos[i - 1]
                 from == IF i = First(i)
                         THEN align_to(s.size, Max({ms[k].align : k \in group(i)}))
                         ELSE s.size
                 at == align_to(from, ms[i].align)
             IN [ms |-> Append(s.ms, [ms[i] EXCEPT !.off = at]),
                 size |-> at + ms[i].size]
  IN pos[n]

-----------------------------------------------------------------------------
(* Addresses of symbols.  base is the address of every chunk by its name,  *)
(* text the input sections of the executable ones.                         *)

SymAddr(base, text, sym) ==
  IF sym.plt # -1 THEN base[<<"plt">>] + sym.plt
  ELSE IF sym.osec = <<>> THEN sym.val
  ELSE IF sym.idx = 0 THEN base[sym.osec] + sym.val
  ELSE base[sym.osec] + text[sym.osec].ms[sym.idx].off + sym.val

InDistance(val) == -BranchDistance <= val /\ val < BranchDistance

\* is_int(val, N): the branch instruction can encode the displacement.
is_int(val) == LET reach == BranchDistance + SafetyMargin
               IN -reach <= val /\ val < reach

\* The reasons for a thunk other than the distance
NeedsThunkAnyway(rel, sym) == rel.kind = "switch" \/ (PltThunks /\ sym.plt # -1)

\* first_pass = TRUE: no address is known but those of the sections of this
\* output section that have been placed.
requires_thunk(base, text, syms, osec, i, rel, first_pass) ==
  LET sym == syms[rel.sym]
      P == base[osec] + text[osec].ms[i].off + rel.off
  IN /\ rel.kind \in {"call", "switch"}
     /\ \/ /\ first_pass
           /\ \/ sym.idx = 0
              \/ sym.osec # osec
              \/ text[sym.osec].ms[sym.idx].off = -1
              \/ sym.plt # -1
        \/ NeedsThunkAnyway(rel, sym)
        \/ ~InDistance(SymAddr(base, text, sym) - P)

Rels(m) == ToSet(m.rels)

\* offsets of the entries of a thunk for the symbols in seq
compute_size(seq) == [k \in 1..Len(seq) + 1 |-> ThunkHdrSize + (k - 1) * ThunkSize]

\* An ARM64 entry is short if its target is near enough, with a page to spare
\* for address changes.
shrink_size(base, text, syms, osec, off, seq) ==
  LET page(x) == x \div PageSize
      IsSmall(d) == -NearDistance <= d - 1 /\ d + 1 < NearDistance
      ends[k \in 0..Len(seq)] ==
        IF k = 0 THEN <<0>>
        ELSE LET e == ends[k - 1]
                 S == SymAddr(base, text, syms[seq[k]])
                 P == base[osec] + off + Last(e)
             IN Append(e, Last(e) + IF IsSmall(page(S) - page(P))
                                    THEN ThunkSmallSize ELSE ThunkSize)
  IN IF NearThunks THEN ends[Len(seq)] ELSE compute_size(seq)

-----------------------------------------------------------------------------
(* create_range_extension_thunks: a loop whose iterations handle the batch *)
(* of input sections b..c - 1.  Input sections before d are placed; thunks *)
(* before t are out of reach of the batch; marked is the set of symbols    *)
(* whose flags field is set.                                               *)

MoveD(s) ==
  LET n == Len(s.ms)
      CanPlace(e) ==
        LET m == e.ms[e.d]
            end == align_to(align_to(e.offset, m.align) + m.size, ThunkAlign)
        IN e.b = e.d \/ end + MaxThunkSize <= e.ms[e.b].off + BranchDistance
      Place(e) ==
        LET at == align_to(e.offset, e.ms[e.d].align)
        IN [e EXCEPT !.ms[e.d].off = at, !.offset = at + e.ms[e.d].size, !.d = @ + 1]
      ext[k \in 0..n] ==
        IF k = 0 THEN s
        ELSE LET e == ext[k - 1] IN IF e.d <= n /\ CanPlace(e) THEN Place(e) ELSE e
  IN ext[n]

\* Mutant of EraseFarThunks: the marks of their symbols stay.
EraseFarThunks_KeepMarks(s, a) ==
  [s EXCEPT !.a = a, !.t = FirstIn({k \in s.t..Len(s.th) : s.th[k].off >= s.ms[a].off}, Len(s.th))]
\* Forget the thunks that the batch cannot reach.
EraseFarThunks(s, a) ==
  LET t == FirstIn({k \in s.t..Len(s.th) : s.th[k].off >= s.ms[a].off}, Len(s.th))
  IN [s EXCEPT !.a = a, !.t = t,
               !.marked = @ \ UNION {ToSet(s.th[k].syms) : k \in s.t..t - 1}]

CreateThunk(base, syms, osec, text, s0) ==
  LET s1 == MoveD(s0)
      b == s1.b
      d == s1.d
      c == FirstIn({i \in b + 1..d - 1 : s1.ms[i].off + s1.ms[i].size >= s1.ms[b].off + BatchSize},
                   d - 1)
      c_offset == IF c = d THEN s1.offset ELSE s1.ms[c].off
      a == FirstIn({i \in s1.a..b - 1 : s1.ms[i].off >= c_offset - BranchDistance}, b - 1)
      s2 == EraseFarThunks(s1, a)
      here == [text EXCEPT ![osec].ms = s2.ms]
      wanted == UNION {{r.sym : r \in {x \in Rels(s2.ms[i]) :
                                  requires_thunk(base, here, syms, osec, i, x, TRUE)}} :
                         i \in b..c - 1} \ s2.marked
      seq == SetToSortSeq(wanted, <)
      at == align_to(s2.offset, ThunkAlign)
      offsets == compute_size(seq)
  IN [s2 EXCEPT !.th = Append(@, [off |-> at, syms |-> seq, offsets |-> offsets]),
                !.offset = at + Last(offsets), !.marked = @ \cup wanted,
                !.ok = @ /\ Last(offsets) < MaxThunkSize, !.b = c]

create_range_extension_thunks(base, syms, osec, text) ==
  LET ms == [i \in DOMAIN text[osec].ms |-> [text[osec].ms[i] EXCEPT !.off = -1]]
      n == Len(ms)
      st[k \in 0..n] ==
        IF k = 0 THEN [ms |-> ms, th |-> <<>>, a |-> 1, b |-> 1, d |-> 1, t |-> 1,
                       offset |-> 0, marked |-> {}, ok |-> TRUE]
        ELSE LET s == st[k - 1]
             IN IF s.b > n THEN s ELSE CreateThunk(base, syms, osec, text, s)
  IN st[n]

-----------------------------------------------------------------------------
(* remove_redundant_thunks, once every chunk has an address.               *)

\* The symbols that some branch of some section needs a thunk for
StillNeeded(base, text, syms) ==
  {r.sym : r \in UNION {UNION {{x \in Rels(text[o].ms[i]) :
                                 requires_thunk(base, text, syms, o, i, x, FALSE)} :
                                i \in DOMAIN text[o].ms} : o \in DOMAIN text}}

\* The thunks of one output section without the symbols outside of need
ShrinkThunks(base, text, syms, osec, need) ==
  [k \in DOMAIN text[osec].th |->
     LET t == text[osec].th[k]
         seq == SelectSeq(t.syms, LAMBDA y : y \in need)
     IN [t EXCEPT !.syms = seq,
                  !.offsets = shrink_size(base, text, syms, osec, t.off, seq)]]

\* Place input sections and thunks again, in the order of their old offsets.
Repack(ms, th) ==
  LET items == [i \in 1..Len(ms) + Len(th) |->
                  IF i <= Len(th) THEN <<th[i].off, 0, i>>
                  ELSE <<ms[i - Len(th)].off, 1, i - Len(th)>>]
      order == StableSort(items, items)
      st[k \in 0..Len(order)] ==
        IF k = 0 THEN [ms |-> ms, th |-> th, size |-> 0]
        ELSE LET s == st[k - 1]
                 j == order[k][3]
                 sec == align_to(s.size, ms[j].align)
                 thk == align_to(s.size, ThunkAlign)
             IN IF order[k][2] = 1
                THEN [s EXCEPT !.ms[j].off = sec, !.size = sec + ms[j].size]
                ELSE [s EXCEPT !.th[j].off = thk, !.size = thk + Last(th[j].offsets)]
  IN st[Len(order)]

remove_redundant_thunks(base, text, syms) ==
  LET need == StillNeeded(base, text, syms)
  IN [o \in DOMAIN text |->
        Repack(text[o].ms, ShrinkThunks(base, text, syms, o, need))]

\* The addresses of the thunk entries of every symbol, in ascending order
gather_thunk_addresses(base, text, syms) ==
  [y \in DOMAIN syms |->
     SetToSortSeq(UNION {UNION {{base[o] + text[o].th[k].off + text[o].th[k].offsets[j] :
                                   j \in {x \in DOMAIN text[o].th[k].syms :
                                            text[o].th[k].syms[x] = y}} :
                                  k \in DOMAIN text[o].th} : o \in DOMAIN text}, <)]

\* The entry a branch at P takes, -1 if none is in reach (a fatal error)
get_thunk_addr(addrs, P) ==
  LET k == FirstIn({i \in DOMAIN addrs : addrs[i] >= P - BranchDistance}, Len(addrs))
  IN IF k <= Len(addrs) /\ InDistance(addrs[k] - P) THEN addrs[k] ELSE -1

-----------------------------------------------------------------------------
(* shrink_sections.                                                        *)

\* The bytes removed before offset
get_r_delta(deltas, offset) ==
  LET S == {i \in DOMAIN deltas : deltas[i].off < offset}
  IN IF S = {} THEN 0 ELSE deltas[Max(S)].delta

\* Absolute symbols count as infinitely far away.
compute_distance(base, text, syms, osec, i, rel) ==
  SymAddr(base, text, syms[rel.sym]) - (base[osec] + text[osec].ms[i].off + rel.off)
CanRelax(base, text, syms, osec, i, rel) ==
  /\ syms[rel.sym].osec # <<>>
  /\ LET dist == compute_distance(base, text, syms, osec, i, rel)
     IN -RelaxDistance <= dist /\ dist < RelaxDistance

\* The alignment that padding of n bytes is for.  RISC-V rounds n up to a power
\* of two; LoongArch adds the size of an instruction.
bit_ceil(n) == Min({x \in 1..2 * n : x >= n /\ \E k \in 0..x : x = 2^k})
NopAlign(n) == IF link.target = "riscv" THEN bit_ceil(n) ELSE n + 1

\* The deltas of one input section: a relocation that loses bytes adds one.
\* The padding before an aligned instruction is cut to what its new place needs.
shrink_section(base, text, syms, osec, i) ==
  LET m == text[osec].ms[i]
      st[k \in 0..Len(m.rels)] ==
        IF k = 0 THEN [deltas |-> <<>>, delta |-> 0]
        ELSE LET s == st[k - 1]
                 r == m.rels[k]
                 P == base[osec] + m.off + r.off - s.delta
                 nops == P + r.sym - align_to(P, NopAlign(r.sym))
                 d == IF r.kind = "align" THEN nops
                      ELSE IF r.kind = "relax" /\ CanRelax(base, text, syms, osec, i, r)
                      THEN RelaxBytes ELSE 0
             IN IF d = 0 THEN s
                ELSE [deltas |-> Append(s.deltas, [off |-> r.off, delta |-> s.delta + d,
                                                   kind |-> r.kind, sym |-> r.sym]),
                      delta |-> s.delta + d]
  IN st[Len(m.rels)]

\* The three steps of shrink_sections: bytes removed from the input sections,
\* the values of their symbols, and the offsets of the input sections.
shrink_sections(base, text, syms) ==
  LET cut == [o \in DOMAIN text |-> [i \in DOMAIN text[o].ms |->
                shrink_section(base, text, syms, o, i)]]
      Shorter(o) == [i \in DOMAIN text[o].ms |->
                       [text[o].ms[i] EXCEPT !.size = @ - cut[o][i].delta]]
  IN [syms |-> [y \in DOMAIN syms |->
                  IF syms[y].idx = 0 \/ syms[y].osec \notin DOMAIN text THEN syms[y]
                  ELSE [syms[y] EXCEPT
                          !.val = @ - get_r_delta(cut[syms[y].osec][syms[y].idx].deltas, @)]],
      text |-> [o \in DOMAIN text |->
                  compute_section_size(Shorter(o)) @@ [th |-> <<>>]],
      deltas |-> [o \in DOMAIN text |-> [i \in DOMAIN text[o].ms |-> cut[o][i].deltas]]]
=============================================================================
