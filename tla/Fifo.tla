-------------------------------- MODULE Fifo --------------------------------
(***************************************************************************)
(* TinyUSB's ring buffer (common/tusb_fifo.c), as the transmit buffer of   *)
(* the serial port uses it: written until it is full, or over its oldest   *)
(* items.  The indices run to twice the depth, so that a buffer that has   *)
(* overflowed once can be told from one that is partly filled; the write   *)
(* leaves the read index alone, and the next read puts it right.           *)
(***************************************************************************)
EXTENDS Naturals, Sequences

CONSTANT DEPTH          \* items: 64, CFG_TUD_CDC_TX_BUFSIZE

ASSUME DepthAssumption == DEPTH \in Nat \ {0}

Least(m, n) == IF m < n THEN m ELSE n

(* tu_fifo_config, tu_fifo_clear and tu_fifo_set_overwritable. *)
NewFifo == [mem |-> [p \in 0 .. DEPTH - 1 |-> 0], rd |-> 0, wr |-> 0, overwritable |-> TRUE]
Cleared(f) == [f EXCEPT !.rd = 0, !.wr = 0]
SetOverwritable(f, yes) == [f EXCEPT !.overwritable = yes]

advance_index(index, n) == (index + n) % (2 * DEPTH)

(* _ff_count, more than DEPTH after an overflow, and _ff_remaining. *)
Items(f) == (f.wr + 2 * DEPTH - f.rd) % (2 * DEPTH)
Remaining(f) == DEPTH - Least(DEPTH, Items(f))

-----------------------------------------------------------------------------
(* Mutant: an overflow is not noticed. *)
NotCorrected(f) == f

(* _ff_correct_read_index: the last DEPTH items are left. *)
Corrected(f) ==
  IF Items(f) > DEPTH THEN [f EXCEPT !.rd = advance_index(f.wr, DEPTH)] ELSE f

(* tu_fifo_read_n: what it reads, and the buffer behind it. *)
Peek(f, n) ==
  LET g == Corrected(f)
  IN  [i \in 1 .. Least(n, Items(g)) |-> g.mem[(g.rd + i - 1) % DEPTH]]

AfterRead(f, n) ==
  LET g == Corrected(f) IN [g EXCEPT !.rd = advance_index(@, Least(n, Items(g)))]

-----------------------------------------------------------------------------
(* Items from index wr on, which then is behind them. *)
Push(f, items, wr) ==
  LET place(p) == ((p + DEPTH - (wr % DEPTH)) % DEPTH) + 1
  IN  [f EXCEPT !.mem = [p \in DOMAIN @ |-> IF place(p) <= Len(items) THEN items[place(p)] ELSE @[p]],
                !.wr = advance_index(wr, Len(items))]

(* tu_fifo_write_n.  A second overflow before a read is not kept apart:    *)
(* items that are neither the oldest nor the last ones are dropped.        *)
AfterWrite(f, items) ==
  LET n == Len(items)
  IN  CASE ~f.overwritable -> Push(f, SubSeq(items, 1, Least(n, Remaining(f))), f.wr)
        [] f.overwritable /\ n >= DEPTH -> Push(f, SubSeq(items, n - DEPTH + 1, n), f.rd)
        [] f.overwritable /\ n < DEPTH ->
             Push(f, items, IF Items(f) + n >= 2 * DEPTH THEN advance_index(f.rd, DEPTH - n)
                                                         ELSE f.wr)
=============================================================================
