---------------------------- MODULE JsonNumbers -----------------------------
(***************************************************************************)
(* The numbers of jsoncpp 1.8.4: what a value that is an integer of one    *)
(* range, or a double, is in another (lib_json/json_value.cpp).  Integers  *)
(* are as wide as the constants say; a double is a number of halves, NaN   *)
(* or an infinity.                                                         *)
(***************************************************************************)
EXTENDS JsonTokens

CONSTANTS
    maxInt,             \* of Int and UInt, the smaller integers
    maxLargestInt,      \* of LargestInt and LargestUInt
    NaN, Infinity, NegInfinity

ASSUME WidthAssumption == maxInt \in Nat /\ maxLargestInt \in Nat /\ maxInt < maxLargestInt
ASSUME NoNumberAssumption == NaN \notin Int /\ Bad \notin Int

maxUInt == 2 * maxInt + 1
minInt == -maxInt - 1
maxLargestUInt == 2 * maxLargestInt + 1
minLargestInt == -maxLargestInt - 1

IntValue(n) == [type |-> "int", n |-> n]
UIntValue(n) == [type |-> "uint", n |-> n]
RealValue(x) == [type |-> "real", x |-> x]

IsArray(v) == v.type = "array"
IsObject(v) == v.type = "object"
IsContainer(v) == IsArray(v) \/ IsObject(v)

Present(v) == IF IsContainer(v) THEN DOMAIN v.m ELSE {}

-----------------------------------------------------------------------------
(* Conversions: [ok, n], where not ok is a LogicError, and n is Bad if the *)
(* conversion of a double is undefined                                     *)

Number(n) == [ok |-> TRUE, n |-> n]
NotConvertible == [ok |-> FALSE, n |-> 0]

IsIntegral(x) == x % 2 = 0
Truncated(x) == IF x < 0 THEN -((-x) \div 2) ELSE x \div 2
InRange(x, least, most) == x # NaN /\ x >= 2 * least /\ x <= 2 * most

\* The largest 64-bit integers, as doubles, are rounded up.
maxInt64AsDouble == maxLargestInt + 1
maxUInt64AsDouble == maxLargestUInt + 1

\* A cast of a double to an integer of that range
Cast(x, least, most) == IF Truncated(x) \in least .. most THEN Number(Truncated(x)) ELSE Number(Bad)

isNumeric(v) == v.type \in {"int", "uint", "real"}

isInt(v) ==
    CASE v.type \in {"int", "uint"} -> v.n \in minInt .. maxInt
      [] v.type = "real" -> InRange(v.x, minInt, maxInt) /\ IsIntegral(v.x)
      [] OTHER -> FALSE

isUInt(v) ==
    CASE v.type \in {"int", "uint"} -> v.n \in 0 .. maxUInt
      [] v.type = "real" -> InRange(v.x, 0, maxUInt) /\ IsIntegral(v.x)
      [] OTHER -> FALSE

\* Slip: at most instead of less than the double
isInt64Rounded(v) ==
    CASE v.type = "int" -> TRUE
      [] v.type = "uint" -> v.n <= maxLargestInt
      [] v.type = "real" -> InRange(v.x, minLargestInt, maxInt64AsDouble) /\ IsIntegral(v.x)
      [] OTHER -> FALSE

isInt64(v) ==
    CASE v.type = "int" -> TRUE
      [] v.type = "uint" -> v.n <= maxLargestInt
      [] v.type = "real" -> /\ InRange(v.x, minLargestInt, maxInt64AsDouble)
                            /\ v.x < 2 * maxInt64AsDouble /\ IsIntegral(v.x)
      [] OTHER -> FALSE

isUInt64(v) ==
    CASE v.type = "int" -> v.n >= 0
      [] v.type = "uint" -> TRUE
      [] v.type = "real" -> /\ InRange(v.x, 0, maxUInt64AsDouble)
                            /\ v.x < 2 * maxUInt64AsDouble /\ IsIntegral(v.x)
      [] OTHER -> FALSE

isIntegral(v) ==
    CASE v.type \in {"int", "uint"} -> TRUE
      [] v.type = "real" -> /\ InRange(v.x, minLargestInt, maxUInt64AsDouble)
                            /\ v.x < 2 * maxUInt64AsDouble /\ IsIntegral(v.x)
      [] OTHER -> FALSE

\* asInt, asUInt, asInt64 and asUInt64 of what is not a number
asOther(v) ==
    CASE v.type = "null" -> Number(0)
      [] v.type = "bool" -> Number(IF v.b THEN 1 ELSE 0)
      [] OTHER -> NotConvertible

asInt(v) ==
    CASE v.type \in {"int", "uint"} -> IF isInt(v) THEN Number(v.n) ELSE NotConvertible
      [] v.type = "real" -> IF InRange(v.x, minInt, maxInt) THEN Cast(v.x, minInt, maxInt)
                            ELSE NotConvertible
      [] OTHER -> asOther(v)

asUInt(v) ==
    CASE v.type \in {"int", "uint"} -> IF isUInt(v) THEN Number(v.n) ELSE NotConvertible
      [] v.type = "real" -> IF InRange(v.x, 0, maxUInt) THEN Cast(v.x, 0, maxUInt)
                            ELSE NotConvertible
      [] OTHER -> asOther(v)

asInt64(v) ==
    CASE v.type \in {"int", "uint"} -> IF isInt64(v) THEN Number(v.n) ELSE NotConvertible
      [] v.type = "real" -> IF InRange(v.x, minLargestInt, maxInt64AsDouble)
                            THEN Cast(v.x, minLargestInt, maxLargestInt) ELSE NotConvertible
      [] OTHER -> asOther(v)

asUInt64(v) ==
    CASE v.type \in {"int", "uint"} -> IF isUInt64(v) THEN Number(v.n) ELSE NotConvertible
      [] v.type = "real" -> IF InRange(v.x, 0, maxUInt64AsDouble)
                            THEN Cast(v.x, 0, maxLargestUInt) ELSE NotConvertible
      [] OTHER -> asOther(v)

\* In halves
asDouble(v) ==
    CASE v.type \in {"int", "uint"} -> Number(2 * v.n)
      [] v.type = "real" -> Number(v.x)
      [] v.type = "null" -> Number(0)
      [] v.type = "bool" -> Number(IF v.b THEN 2 ELSE 0)
      [] OTHER -> NotConvertible

asBool(v) ==
    CASE v.type = "bool" -> Number(v.b)
      [] v.type = "null" -> Number(FALSE)
      [] v.type \in {"int", "uint"} -> Number(v.n # 0)
      [] v.type = "real" -> Number(v.x # 0)
      [] OTHER -> NotConvertible

isConvertibleTo(v, other_) ==
    CASE other_ = "null" ->
            \/ v.type = "null" \/ (isNumeric(v) /\ asDouble(v).n = 0)
            \/ (v.type = "bool" /\ ~v.b) \/ (v.type = "string" /\ v.s = <<>>)
            \/ (IsContainer(v) /\ Present(v) = {})
      [] other_ = "int" ->
            \/ isInt(v) \/ v.type \in {"bool", "null"}
            \/ (v.type = "real" /\ InRange(v.x, minInt, maxInt))
      [] other_ = "uint" ->
            \/ isUInt(v) \/ v.type \in {"bool", "null"}
            \/ (v.type = "real" /\ InRange(v.x, 0, maxUInt))
      [] other_ \in {"real", "bool"} -> isNumeric(v) \/ v.type \in {"bool", "null"}
      [] other_ = "string" -> isNumeric(v) \/ v.type \in {"bool", "string", "null"}
      [] OTHER -> v.type \in {other_, "null"}

-----------------------------------------------------------------------------
(* Properties *)

\* What isInt and the like promise: the value is a number of that range, and the
\* conversion gives it.  isConvertibleTo says which conversions do not throw, and
\* of those, asInt64 and asUInt64 leave one undefined, that of the least double
\* above the range (json_value.cpp:732-932, 1306-1406).
Converts(v) ==
    LET whole(least, most) ==
            isNumeric(v) /\ \E n \in least .. most : asDouble(v).n = 2 * n
        exact(r) == r.ok /\ 2 * r.n = asDouble(v).n
    IN /\ isInt(v) <=> whole(minInt, maxInt)
       /\ isUInt(v) <=> whole(0, maxUInt)
       /\ isInt64(v) <=> whole(minLargestInt, maxLargestInt)
       /\ isUInt64(v) <=> whole(0, maxLargestUInt)
       /\ isIntegral(v) <=> whole(minLargestInt, maxLargestUInt)
       /\ isInt(v) => exact(asInt(v))
       /\ isUInt(v) => exact(asUInt(v))
       /\ isInt64(v) => exact(asInt64(v))
       /\ isUInt64(v) => exact(asUInt64(v))
       /\ asInt(v).ok <=> isConvertibleTo(v, "int")
       /\ asUInt(v).ok <=> isConvertibleTo(v, "uint")
       /\ asDouble(v).ok <=> isConvertibleTo(v, "real")
       /\ asBool(v).ok <=> isConvertibleTo(v, "bool")
       /\ asInt(v).n # Bad /\ asUInt(v).n # Bad
       /\ asInt64(v).n = Bad <=> v.type = "real" /\ v.x = 2 * maxInt64AsDouble
       /\ asUInt64(v).n = Bad <=> v.type = "real" /\ v.x = 2 * maxUInt64AsDouble
=============================================================================
