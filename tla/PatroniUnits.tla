------------------------------ MODULE PatroniUnits ------------------------------
(***************************************************************************)
(* A numeric parameter of Postgres from the text in the configuration to   *)
(* what Postgres makes of it: the value is checked against the range the   *)
(* validators know, written, read by Postgres, and at every reload of the  *)
(* configuration compared with what Postgres has (compare_values).         *)
(*                                                                         *)
(* A text is a fraction and a unit.  Kilo stands for 1024, Milli for 1000  *)
(* and Sixty for 60: TLC's integers end at 2^31.                           *)
(***************************************************************************)
EXTENDS Integers, Sequences

CONSTANTS Kilo, Milli, Sixty, None,
          Texts,    \* records [num, den, unit]
          Params,   \* records [vartype, mult, unit, low, high]: base unit and range, in base units
          Blocks    \* pairs of shared_buffers and wal_segment_size in blocks of wal_block_size

VARIABLES param, text, setting
vars == <<param, text, setting>>

\* The units, each with the next smaller one, and their sizes in the smallest.
Smaller == [TB |-> "GB", GB |-> "MB", MB |-> "kB", kB |-> "B", B |-> None,
            h |-> "min", min |-> "s", s |-> "ms", ms |-> "us", us |-> None]
Size == [B |-> 1, kB |-> Kilo, MB |-> Kilo * Kilo, GB |-> Kilo * Kilo * Kilo, TB |-> Kilo * Kilo * Kilo * Kilo,
         us |-> 1, ms |-> Milli, s |-> Milli * Milli, min |-> Sixty * Milli * Milli,
         h |-> Sixty * Sixty * Milli * Milli]
Memory == <<"TB", "GB", "MB", "kB", "B">>
Time == <<"h", "min", "s", "ms", "us">>
get_conversion_table(unit) ==
    IF unit \in {"B", "kB", "MB"} THEN Memory ELSE IF unit \in {"ms", "s", "min"} THEN Time ELSE <<>>
Units(unit) == {get_conversion_table(unit)[i] : i \in DOMAIN get_conversion_table(unit)}

\* round: to the nearest, a half to the even one.
Round(p, q) ==
    LET f == p \div q
        r == 2 * (p % q)
    IN IF r < q THEN f ELSE IF r > q THEN f + 1 ELSE IF f % 2 = 0 THEN f ELSE f + 1
Same(x, y) == x[1] * y[2] = y[1] * x[2]

-----------------------------------------------------------------------------
(* From text to base unit; values are fractions <<p, q>>.                   *)

\* Variant: a fraction is not rounded to the next smaller unit.
ConvertExactly(t, base) ==
    IF t.unit \notin Units(base.unit) THEN None ELSE <<t.num * Size[t.unit], t.den * Size[base.unit] * base.mult>>

\* The rounding step is one of the next smaller unit for the base unit without its
\* multiplier.
convert_to_base_unit(t, base) ==
    IF t.unit \notin Units(base.unit) THEN None
    ELSE IF Smaller[t.unit] = None THEN <<t.num * Size[t.unit], t.den * Size[base.unit] * base.mult>>
    ELSE LET next == Size[Smaller[t.unit]]
         IN <<Round(t.num * Size[t.unit], t.den * base.mult * next) * next, Size[base.unit]>>

strtol(t) == [val |-> t.num \div t.den, rest |-> IF t.den = 1 THEN "unit" ELSE "fraction"]
strtod(t) == <<t.num, t.den>>

parse_real(t, base) ==
    IF t.unit = None THEN strtod(t) ELSE IF base = None THEN None ELSE convert_to_base_unit(t, base)
parse_int(t, base) ==
    LET val == IF t.unit = None THEN (IF strtol(t).rest = "unit" THEN <<strtol(t).val, 1>> ELSE strtod(t))
               ELSE IF base = None THEN None ELSE convert_to_base_unit(t, base)
    IN IF val = None THEN None ELSE <<Round(val[1], val[2]), 1>>
Parse(p, t) == IF p.vartype = "real" THEN parse_real(t, p) ELSE parse_int(t, p)

\* old: the setting, which Postgres reports in the base unit.
compare_values(p, old, t) == Parse(p, t) /= None /\ Same(old, Parse(p, t))

\* Back to the largest unit that takes the value without a rest.
Fits(v, unit, base) == Size[unit] <= Size[base.unit] \/ (v * Size[base.unit]) % Size[unit] = 0
First(v, base) == CHOOSE i \in DOMAIN get_conversion_table(base.unit) :
                     /\ Fits(v, get_conversion_table(base.unit)[i], base)
                     /\ \A j \in 1 .. i - 1 : ~Fits(v, get_conversion_table(base.unit)[j], base)
InUnit(v, base) == LET unit == get_conversion_table(base.unit)[First(v, base)]
                   IN [num |-> Round(v * Size[base.unit], Size[unit]), den |-> 1, unit |-> unit]
convert_int_from_base_unit(v, base) == InUnit(v * base.mult, base)

-----------------------------------------------------------------------------
(* The validators, Postgres, and the default of wal_buffers.                *)

Plain(v) == [num |-> v, den |-> 1, unit |-> None]
Below(x, v) == x[1] < v * x[2]
Above(x, v) == x[1] > v * x[2]

transform(p, t) ==
    IF Parse(p, t) = None THEN None
    ELSE IF Below(Parse(p, t), p.low) THEN Plain(p.low)
    ELSE IF Above(Parse(p, t), p.high) THEN Plain(p.high)
    ELSE t

\* What Postgres reads: it rounds a fraction to the next smaller unit as well.
PostgresReads(p, t) ==
    LET next == Size[Smaller[t.unit]]
        val == IF t.unit = None THEN <<t.num, t.den>>
               ELSE IF Smaller[t.unit] = None THEN <<t.num * Size[t.unit], t.den * Size[p.unit] * p.mult>>
               ELSE <<Round(t.num * Size[t.unit], t.den * next) * next, Size[p.unit] * p.mult>>
    IN IF p.vartype = "real" THEN val ELSE <<Round(val[1], val[2]), 1>>

AtLeast(x, v) == IF Below(x, v) THEN <<v, 1>> ELSE x
AtMost(x, v) == IF Above(x, v) THEN <<v, 1>> ELSE x
_handle_wal_buffers(sb, seg) == AtMost(AtLeast(<<sb, 32>>, 8), seg)
PostgresWalBuffers(sb, seg) == AtLeast(AtMost(<<sb \div 32, 1>>, seg), 8)

-----------------------------------------------------------------------------

\* The parameter is written without a value the validator refuses, and Postgres then
\* has its default.
Written(p, t) == IF transform(p, t) = None THEN <<p.low, 1>> ELSE PostgresReads(p, transform(p, t))

Init ==
    /\ param \in Params /\ text \in Texts
    /\ setting = Written(param, text)

\* The configuration is changed, reloaded and, where needed, Postgres restarted.
Configure ==
    /\ text' \in Texts
    /\ setting' = Written(param, text')
    /\ UNCHANGED param

Next == Configure
Spec == Init /\ [][Next]_vars

-----------------------------------------------------------------------------
(* Patroni and Postgres read the same value. *)

\* Postgres rounds to another step than convert_to_base_unit: a fraction in a base
\* unit with a multiplier, as shared_buffers = 0.1GB in blocks of 8kB.
OtherStep(t) == param.mult /= 1 /\ t.den /= 1 /\ t.unit /= None

\* Types: a parameter always has a value of its kind.
UnitsTypeOK ==
    /\ param \in Params /\ text \in Texts
    /\ setting[1] \in Int /\ setting[2] \in Nat \ {0}
    /\ param.vartype = "integer" => setting[2] = 1

\* When Postgres runs with the value that is configured, a reload of the
\* configuration finds no difference: no needless write, reload or pending restart,
\* whatever unit and fraction the value is written with ("True if settings_value is
\* equivalent to config_value", compare_values).  A value out of range is compared as
\* it is configured, not as it is written (config.py:1127, 497); and see OtherStep
\* (utils.py:319).
SettledIsQuiet ==
    transform(param, text) /= None
    => compare_values(param, setting, text) \/ transform(param, text) /= text \/ OtherStep(text)

\* What the validators let through Postgres accepts: no value out of range reaches
\* postgresql.conf, where it would keep Postgres from starting.
ClampedIsValid ==
    transform(param, text) /= None /\ ~OtherStep(text)
    => ~Below(setting, param.low) /\ ~Above(setting, param.high)

\* The value that is shown for a pending restart is the one that Postgres has: parsed
\* again, it is the same number of base units.
ShownIsMeant ==
    param.vartype = "integer" =>
       Same(parse_int(convert_int_from_base_unit(setting[1], param), param), setting)

\* The default of wal_buffers is one a segment can hold, and the one Postgres chooses, unless Postgres cuts a
\* fraction of a block off (config.py:1108 does not).
WalBuffersKnown ==
    \A b \in Blocks :
        LET shared == b[1]
            segment == b[2]
        IN /\ ~Above(_handle_wal_buffers(shared, segment), segment)
           /\ \/ Same(_handle_wal_buffers(shared, segment), PostgresWalBuffers(shared, segment))
              \/ shared % 32 /= 0 \/ segment < 8

\* Nothing is lost between the configuration and Postgres.
UnitsSafe == UnitsTypeOK /\ SettledIsQuiet /\ ClampedIsValid /\ ShownIsMeant /\ WalBuffersKnown
=============================================================================
