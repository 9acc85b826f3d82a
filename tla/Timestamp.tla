----------------------------- MODULE Timestamp ------------------------------
(***************************************************************************)
(* The timestamp helpers of pgsql.c.  PostgreSQL counts microseconds from  *)
(* the year 2000 on in 64 bits, struct timespec has seconds from 1970 on   *)
(* and nanoseconds.  The code computes in uint64_t.                        *)
(***************************************************************************)
EXTENDS Integers

CONSTANTS
  WordMod,  \* 2^64
  EPOCH,    \* POSTGRES_EPOCH_DATE, the year 2000
  MICRO,    \* 1000000, the microseconds in a second
  NANO      \* 1000, the nanoseconds in a microsecond

ASSUME TimestampAssumption ==
  /\ WordMod \in Nat \ {0}
  /\ EPOCH \in Nat
  /\ MICRO \in Nat \ {0}
  /\ NANO \in Nat \ {0}

(* struct timespec *)
Timespec == [sec : Int, nsec : 0 .. MICRO * NANO - 1]

Raw == 0 .. WordMod - 1

(* Mutants of ToTimestamp: whole seconds are stored; the difference to the *)
(* epoch keeps its sign.                                                   *)
ToTimestampSeconds(t) == ((t.sec - EPOCH) * MICRO) % WordMod

ToTimestampSigned(t) == (t.sec - EPOCH) * MICRO + t.nsec \div NANO

(* convert_to_timestamp *)
ToTimestamp(t) == ((t.sec - EPOCH) * MICRO + t.nsec \div NANO) % WordMod

(* Mutant of FromTimestamp: seconds are those from the year 2000 on. *)
FromTimestampNoEpoch(raw) == [sec |-> raw \div MICRO, nsec |-> (raw % MICRO) * NANO]

(* convert_from_timestamp *)
FromTimestamp(raw) == [sec |-> EPOCH + raw \div MICRO, nsec |-> (raw % MICRO) * NANO]
=============================================================================
