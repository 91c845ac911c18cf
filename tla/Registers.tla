------------------------------- MODULE Registers -------------------------------
(***************************************************************************)
(* The register allocator of the Lua compiler, one per function            *)
(* (piccolo/src/compiler/register_allocator.rs): any free register, or a   *)
(* block of them above all that are in use.                                *)
(***************************************************************************)
EXTENDS Integers, FiniteSets

CONSTANT Limit   \* how many registers a function has

ASSUME LimitAssumption == Limit \in Nat \ {0}

\* used: the registers that are allocated; free: the first that is not; top: the
\* one after the last; size: the greatest top there has been.
Fresh == [used |-> {}, free |-> 0, top |-> 0, size |-> 0]

LeastReg(S) == CHOOSE i \in S : \A j \in S : i <= j
Larger(i, j) == IF i < j THEN j ELSE i
Smaller(i, j) == IF i < j THEN i ELSE j

CanAllocate(ra) == ra.free < Limit

\* The register is ra.free.
Allocate(ra) ==
  LET used == ra.used \cup {ra.free}
      top == IF ra.free = ra.top THEN ra.top + 1 ELSE ra.top
  IN  [used |-> used,
       free |-> LeastReg((ra.free .. Limit) \ used),
       top |-> top,
       size |-> Larger(ra.size, top)]

CanPush(ra, n) == n > 0 /\ ra.top + n <= Limit

\* The block starts at ra.top.  Its end is computed in a u8: of a block that ends
\* with the last register nothing is marked.
Marked(ra, n) == ra.top .. (((ra.top + n) % Limit) - 1)

Push(ra, n) ==
  [used |-> ra.used \cup Marked(ra, n),
   free |-> IF ra.free = ra.top THEN ra.free + n ELSE ra.free,
   top |-> ra.top + n,
   size |-> Larger(ra.size, ra.top + n)]

\* Everything from t on, and what lay unused below it.
PopTo(ra, t) ==
  IF ra.top <= t THEN ra
  ELSE LET used == ra.used \ (t .. ra.top - 1)
           free == Smaller(ra.free, t)
           below == {i \in free .. t : \A j \in i .. t - 1 : j \notin used}
       IN  [used |-> used, free |-> free, top |-> LeastReg(below), size |-> ra.size]

CanFree(ra, r) == r \in ra.used

FreeReg(ra, r) ==
  IF r + 1 = ra.top THEN PopTo(ra, r)
  ELSE [ra EXCEPT !.used = @ \ {r}, !.free = Smaller(@, r)]
================================================================================
