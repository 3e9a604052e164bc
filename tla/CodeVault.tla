----------------------------- MODULE CodeVault ------------------------------
(* The vault of polaron_fs_unload.pol: where a program without a disk      *)
(* keeps the machine code of the methods it has unloaded, to write it back *)
(* when they are reloaded.                                                 *)
(*                                                                         *)
(* Code is a function from addresses to contents.  What a byte holds is    *)
(* told by where it belongs: code[a] = a is the program's own byte, Trap   *)
(* is int3.  The table of methods is the one that the compiler passes in.  *)
(*                                                                         *)
(* An operator X_m or X_n is a plausible mistake in X, not part of the     *)
(* model.                                                                  *)
EXTENDS Integers, Sequences

CONSTANTS
  Entries,  \* the addresses where methods begin: the table
  CodeEnd,  \* the first address behind the code
  Vault,    \* the vault's bytes
  Slots,    \* its rows
  Longest,  \* no more than this is saved of a method
  Unknown   \* the length of a method that nothing starts after

\* What an instance must give.
VaultAssumption ==
  /\ CodeEnd \in Nat /\ Entries \subseteq 0..(CodeEnd - 1)
  /\ Vault \in Nat /\ Slots \in Nat /\ Longest \in Nat /\ Unknown \in Nat
  /\ \A e \in Entries : e + Unknown <= CodeEnd \/ \E f \in Entries : e < f

VARIABLES
  code,    \* the program's code
  bytes,   \* the vault
  rows,    \* its rows: where a method is, its length, its offset in the vault
  reached, \* the vault's cursor
  gone,    \* history: the methods unloaded and not reloaded
  halted   \* the panic over a full vault

vaultVars == <<code, bytes, rows, reached, gone, halted>>

Trap == -1

VaultInit == /\ code = [a \in 0..(CodeEnd - 1) |-> a]
             /\ bytes = [i \in 0..(Vault - 1) |-> 0]
             /\ rows = << >> /\ reached = 0
             /\ gone = {}
             /\ halted = FALSE

\* The distance to the next method, or Unknown, capped.
LengthOf(m) ==
  LET after == {e \in Entries : e > m}
      len == IF after = {} THEN Unknown
             ELSE (CHOOSE e \in after : \A f \in after : e <= f) - m
  IN  IF len > Longest THEN Longest ELSE len

Body(m) == m..(m + LengthOf(m) - 1)

SlotFor(m) == {i \in DOMAIN rows : rows[i].where = m}

HasRoom(m) == Len(rows) < Slots /\ reached + LengthOf(m) <= Vault

\* Saved, and then overwritten; what is gone already is left alone, so that
\* no traps are saved over the code.
Unload(m) ==
  /\ ~halted /\ SlotFor(m) = {} /\ HasRoom(m)
  /\ bytes' = [i \in DOMAIN bytes |->
                 IF i \in reached..(reached + LengthOf(m) - 1) THEN code[m + i - reached] ELSE bytes[i]]
  /\ rows' = Append(rows, [where |-> m, len |-> LengthOf(m), at |-> reached])
  /\ reached' = reached + LengthOf(m)
  /\ code' = [a \in DOMAIN code |-> IF a \in Body(m) THEN Trap ELSE code[a]]
  /\ gone' = gone \cup {m}
  /\ UNCHANGED halted

\* No room: the program ends, with the code still in place.
Refuse(m) ==
  /\ ~halted /\ SlotFor(m) = {} /\ ~HasRoom(m)
  /\ halted' = TRUE
  /\ UNCHANGED <<code, bytes, rows, reached, gone>>

\* Mutant: the rows behind the one forgotten are forgotten too.
Forget_m(i) == SubSeq(rows, 1, i - 1)

\* The last row moves into the place of the one forgotten.
Forget(i) == SubSeq([rows EXCEPT ![i] = rows[Len(rows)]], 1, Len(rows) - 1)

\* Mutant: the vault's space comes back out of order.
Regained_m(row) == row.at

\* The space comes back when it is the last, or when nothing is left.
Regained(row) == IF Len(rows) = 1 THEN 0
                 ELSE IF row.at + row.len = reached THEN row.at ELSE reached

Reload(m) ==
  /\ ~halted
  /\ \E i \in SlotFor(m) :
       LET row == rows[i]
       IN  /\ code' = [a \in DOMAIN code |-> IF a \in row.where..(row.where + row.len - 1)
                                             THEN bytes[row.at + a - row.where] ELSE code[a]]
           /\ reached' = Regained(row)
           /\ rows' = Forget(i)
  /\ gone' = gone \ {m}
  /\ UNCHANGED <<bytes, halted>>

VaultNext == \E m \in Entries : Unload(m) \/ Refuse(m) \/ Reload(m)
VaultSpec == VaultInit /\ [][VaultNext]_vaultVars
-----------------------------------------------------------------------------
VaultTypeOK ==
  /\ rows \in Seq([where : Entries, len : 0..Longest, at : 0..Vault])
  /\ reached \in 0..Vault /\ gone \subseteq Entries /\ halted \in BOOLEAN

(* Unloading and reloading in any order loses no code: every method that   *)
(* is there has its own bytes, one that is gone is nothing but traps, and  *)
(* the vault still has the bytes of each that is gone.                     *)
CodeIsKept ==
  /\ \A a \in DOMAIN code : code[a] = IF \E m \in gone : a \in Body(m) THEN Trap ELSE a
  /\ \A m \in gone : \E i \in SlotFor(m) :
       \A k \in 0..(rows[i].len - 1) : bytes[rows[i].at + k] = m + k
=============================================================================
