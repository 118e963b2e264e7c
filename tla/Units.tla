------------------------------- MODULE Units -------------------------------
(***************************************************************************)
(* Units: the quotas a user may be given, as the program reads, stores and *)
(* enforces them (internal/mgr/cpu.go, the size parsers of main.go and of  *)
(* internal/admin/handlers.go, cpuLimitConfig of internal/lx/lx.go).       *)
(*                                                                         *)
(* What an operator types is a record [form, n]: a run of digits, a single *)
(* decimal, a size in M or G, or anything else. Integers are those of Go,  *)
(* two's complement, and wrap when a multiplication exceeds them.          *)
(***************************************************************************)
EXTENDS Integers

CONSTANTS
  MaxInt,   \* the largest int: 2^63 - 1 in the program
  Refused   \* what a parser that returns an error returns

ASSUME MaxIntAssumption == MaxInt \in Nat /\ MaxInt >= 99
ASSUME RefusedAssumption == Refused \notin Int

Text == [form : {"digits", "decimal", "M", "G", "other"}, n : Nat]

(* strconv.Atoi returns the nearest int and an error when the digits name  *)
(* no int; ParseCPU and the CLI drop the error, parseMem does not.         *)
Atoi(n) == IF n > MaxInt THEN MaxInt ELSE n
Wrap(i) == ((i + MaxInt + 1) % (2 * (MaxInt + 1))) - MaxInt - 1

(* Tenths of a core.                                                       *)
ParseCPU(t) ==
  CASE t.form = "digits" /\ Atoi(t.n) >= 1 -> Wrap(Atoi(t.n) * 10)
    [] t.form = "decimal" /\ t.n \in 1..9 -> t.n
    [] OTHER -> Refused

(* ValidateCPU accepts a value.                                            *)
ValidCPU(tenths) == tenths >= 1 /\ (tenths < 10 \/ tenths % 10 = 0)

FormatCPU(tenths) ==
  IF tenths % 10 = 0 THEN [form |-> "digits", n |-> tenths \div 10]
  ELSE [form |-> "decimal", n |-> tenths]

(* The LXD keys: whole cores, or one core and milliseconds out of each     *)
(* 100 (0: no allowance).                                                  *)
CpuLimit(tenths) ==
  IF tenths % 10 # 0 THEN [cores |-> 1, slice |-> tenths * 10]
  ELSE [cores |-> tenths \div 10, slice |-> 0]

(* MiB, at least 64: the CLI's parser takes what Atoi returns.             *)
MemOf(t, n) == LET mib == IF t.form = "G" THEN Wrap(n * 1024) ELSE n
               IN IF mib < 64 THEN Refused ELSE mib
ParseMemStrict(t) ==
  IF t.form \in {"digits", "M", "G"} THEN MemOf(t, Atoi(t.n)) ELSE Refused

(* The admin panel's parser refuses digits that name no int.               *)
ParseMem(t) == IF t.n > MaxInt THEN Refused ELSE ParseMemStrict(t)

(* GiB.                                                                    *)
ParseDiskStrict(t) ==
  IF t.form \in {"digits", "G"} /\ Atoi(t.n) >= 1 THEN Atoi(t.n) ELSE Refused

(* The panel reads the disk and the monthly traffic with Atoi alone; no    *)
(* traffic at all stands for no limit.                                     *)
ParseDisk(t) == IF t.form = "digits" /\ t.n <= MaxInt THEN t.n ELSE Refused
ParseTrafficGB(t) == ParseDisk(t)
=============================================================================
