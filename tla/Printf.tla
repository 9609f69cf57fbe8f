------------------------------- MODULE Printf -------------------------------
(***************************************************************************)
(* vprintf, one action per turn of its loop, on formats written from       *)
(* items.  Characters are one-letter strings, arguments are 64-bit slots   *)
(* of the va_list; log keeps what each directive was taken for and the     *)
(* text it put out.  putchar and puts are those of Console.                *)
(***************************************************************************)
EXTENDS LibcString

CONSTANTS
    IntSize, LongSize,  \* number of values of int32_t and int64_t
    Formats,            \* sequences of items
    Slots               \* the arguments

(* A directive as it may be written: flags, a width (0: none) that fits an *)
(* int, l, and a conversion; "k" stands for one that does not exist, and   *)
(* the conversion "char" for an ordinary character instead of a directive. *)
Conversions == {"d", "u", "x", "p", "c", "s", "%", "k"}
Items == [minus : BOOLEAN, zero : BOOLEAN, width : 0 .. (IntSize \div 2 - 1),
          long : BOOLEAN, conv : Conversions \cup {"char"}]

ASSUME PrintfAssumption ==
    /\ IntSize \in Nat \ {0} /\ LongSize \in Nat /\ IntSize <= LongSize
    /\ LongSize % 2 = 0
    /\ Slots \subseteq 0 .. (LongSize - 1)
    /\ Formats \subseteq Seq(Items)

VARIABLES items, fmt, pos, log

printfVars == <<items, fmt, pos, log>>

NUL == "NUL"
DigitChars == <<"0", "1", "2", "3", "4", "5", "6", "7", "8", "9",
                "a", "b", "c", "d", "e", "f">>

(* Mutant: while instead of do ... while.                                  *)
DigitsWhile(u, base) ==
    LET d[n \in 0 .. u] == IF n = 0 THEN <<>>
                           ELSE Append(d[n \div base], DigitChars[(n % base) + 1])
    IN  d[u]

(* do *--cur = ...[unum % base] while (unum /= base)                       *)
Digits(u, base) ==
    LET d[n \in 0 .. u] == IF n < base THEN <<DigitChars[n + 1]>>
                           ELSE Append(d[n \div base], DigitChars[(n % base) + 1])
    IN  d[u]

Times(k, ch) == [i \in 1 .. (IF k > 0 THEN k ELSE 0) |-> ch]

(* The integer of width size, in two's complement, that v is or wraps to.  *)
Signed(v, size) == IF v % size >= size \div 2 THEN (v % size) - size ELSE v % size

(* unum of a negative num: (uint64_t)(-(num + 1)) + 1, where the negation  *)
(* and the two sums are made in 64 bits.                                   *)
Magnitude(num) == (Signed(-Signed(num + 1, LongSize), LongSize) + 1) % LongSize

(* print64(num, base, sign, digit, opt): the sign counts as part of the    *)
(* number, so zero padding goes before it.  The loop that pads on the left *)
(* counts a positive digit down to 0 at least, so that only a negative one *)
(* pads on the right.                                                      *)
Print64(num, base, sign, digit, ox, zero) ==
    LET neg  == sign /\ num < 0
        unum == IF neg THEN Magnitude(num) ELSE num % LongSize
        text == (IF neg THEN <<"-">> ELSE <<>>)
                \o (IF ox THEN <<"0", "x">> ELSE <<>>) \o Digits(unum, base)
    IN  Times(digit - Len(text), IF zero THEN "0" ELSE " ") \o text
        \o (IF digit < 0 THEN Times(-digit - Len(text), " ") ELSE <<>>)

IsDigit(ch) == \E i \in 1 .. 10 : DigitChars[i] = ch
DigitValue(ch) == (CHOOSE i \in 1 .. 16 : DigitChars[i] = ch) - 1

(* n = n * 10 + *fmt++ - '0' along s, for any base                         *)
ValueOf(s, base) ==
    LET n[i \in 0 .. Len(s)] ==
            IF i = 0 THEN 0 ELSE n[i - 1] * base + DigitValue(s[i])
    IN  n[Len(s)]

(* fetch_digit from position p of the format: [digit, zero, at]            *)
FetchDigit(p) ==
    LET neg  == fmt[p] = "-"
        q    == IF neg THEN p + 1 ELSE p
        zero == fmt[q] = "0"
        from == IF zero THEN q + 1 ELSE q
        stop[i \in from .. Len(fmt)] == IF ~ IsDigit(fmt[i]) THEN i ELSE stop[i + 1]
        n    == ValueOf(SubSeq(fmt, from, stop[from] - 1), 10)
    IN  [digit |-> IF neg THEN -n ELSE n, zero |-> zero, at |-> stop[from]]

-----------------------------------------------------------------------------
(* How an item is written.                                                 *)
Written(it) ==
    IF it.conv = "char" THEN <<"k">>
    ELSE <<"%">> \o (IF it.minus THEN <<"-">> ELSE <<>>)
         \o (IF it.zero THEN <<"0">> ELSE <<>>)
         \o (IF it.width = 0 THEN <<>> ELSE Digits(it.width, 10))
         \o (IF it.long THEN <<"l">> ELSE <<>>) \o <<it.conv>>

PrintfInit ==
    /\ items \in Formats
    /\ fmt = FlattenSeq([i \in DOMAIN items |-> Written(items[i])]) \o <<NUL>>
    /\ pos = 1
    /\ log = <<>>

(* The directive at pos: what fetch_digit and the two switches see.        *)
Directive ==
    LET d    == FetchDigit(pos + 1)
        long == fmt[d.at] \in {"l", "L"}
        at   == IF long THEN d.at + 1 ELSE d.at
    IN  [digit |-> d.digit, zero |-> d.zero, long |-> long, conv |-> fmt[at],
         next |-> at + 1]

Emit(conv, digit, zero, long, arg, text) ==
    log' = Append(log, [conv |-> conv, digit |-> digit, zero |-> zero,
                        long |-> long, arg |-> arg, text |-> text])

PutDirective(d, arg, text) ==
    /\ Emit(d.conv, d.digit, d.zero, d.long, arg, text)
    /\ pos' = d.next
    /\ UNCHANGED <<items, fmt, mem>>

AtDirective == fmt[pos] = "%"

PutOrdinary ==
    /\ fmt[pos] \notin {"%", NUL}
    /\ Emit("char", 0, FALSE, FALSE, 0, <<fmt[pos]>>)
    /\ pos' = pos + 1
    /\ UNCHANGED <<items, fmt, mem>>

PutInteger(v) ==
    /\ AtDirective
    /\ LET d == Directive
           size == IF d.long THEN LongSize ELSE IntSize
       IN  \/ /\ d.conv = "d"
              /\ PutDirective(d, v, Print64(Signed(v, size), 10, TRUE, d.digit, FALSE, d.zero))
           \/ /\ d.conv = "u"
              /\ PutDirective(d, v, Print64(v % size, 10, FALSE, d.digit, FALSE, d.zero))
           \/ /\ d.conv = "x"
              /\ PutDirective(d, v, Print64(Signed(v, LongSize), 16, FALSE, d.digit, FALSE, d.zero))
           \/ /\ d.conv = "p" /\ ~ d.long
              /\ PutDirective(d, v, Print64(Signed(v, LongSize), 16, FALSE, d.digit, TRUE, FALSE))

(* %c; %s with the string at address a, or with NULL; neither is padded.   *)
PutCharacter(v) ==
    /\ AtDirective
    /\ LET d == Directive IN d.conv = "c" /\ ~ d.long /\ PutDirective(d, v, <<v % 256>>)

PutString(a) ==
    /\ AtDirective
    /\ LET d == Directive IN
        /\ d.conv = "s" /\ ~ d.long
        /\ PutDirective(d, a, IF a = -1 THEN <<"(", "n", "u", "l", "l", ")">>
                              ELSE Load(mem, a, Strlen(mem, a)))

(* %% and everything else                                                  *)
PutVerbatim ==
    /\ AtDirective
    /\ LET d == Directive IN
        /\ d.conv \notin {"d", "u", "x"}
        /\ d.long \/ d.conv \notin {"p", "c", "s"}
        /\ PutDirective(d, 0,
              IF d.conv = "%" /\ ~ d.long THEN <<"%">>
              ELSE <<"%">> \o (IF d.long THEN <<"l">> ELSE <<>>) \o <<d.conv>>)

PrintfNext ==
    \/ PutOrdinary \/ PutVerbatim
    \/ \E v \in Slots : PutInteger(v) \/ PutCharacter(v)
    \/ \E a \in Addr \cup {-1} : (a # -1 => IsString(mem, a)) /\ PutString(a)

PrintfSpec == mem \in Mem /\ PrintfInit /\ [][PrintfNext]_<<mem, printfVars>>

-----------------------------------------------------------------------------
AllAre(s, ch)    == \A i \in DOMAIN s : s[i] = ch

(* s is v in base base: "-" or nothing, the prefix, digits without a       *)
(* superfluous zero.                                                       *)
Denotes(s, v, base, prefix) ==
    LET lead == (IF v < 0 THEN <<"-">> ELSE <<>>) \o prefix
        digs == SubSeq(s, Len(lead) + 1, Len(s))
    IN  /\ s = lead \o digs /\ Len(digs) > 0
        /\ \A i \in DOMAIN digs : \E k \in 1 .. base : DigitChars[k] = digs[i]
        /\ ValueOf(digs, base) = IF v < 0 THEN -v ELSE v
        /\ digs[1] = "0" => Len(digs) = 1

(* e.text is v, padded to the width: on the left with zeros or blanks, on  *)
(* the right with blanks if the width is negative.                         *)
Shows(e, v, base, prefix) ==
    LET width == IF e.digit < 0 THEN -e.digit ELSE e.digit
    IN  \E i, j \in 0 .. Len(e.text) :
          /\ i <= j
          /\ Denotes(SubSeq(e.text, i + 1, j), v, base, prefix)
          /\ AllAre(SubSeq(e.text, 1, i), IF e.zero /\ e.conv # "p" THEN "0" ELSE " ")
          /\ AllAre(SubSeq(e.text, j + 1, Len(e.text)), " ")
          /\ (i > 0 => e.digit > 0) /\ (j < Len(e.text) => e.digit < 0)
          /\ Len(e.text) = IF width > j - i THEN width ELSE j - i

ArgumentShown(e) ==
    LET size == IF e.long THEN LongSize ELSE IntSize
    IN  /\ e.conv = "d" => Shows(e, Signed(e.arg, size), 10, <<>>)
        /\ e.conv = "u" => Shows(e, e.arg % size, 10, <<>>)
        /\ e.conv = "x" => Shows(e, e.arg, 16, <<>>)
        /\ e.conv = "p" /\ ~ e.long => Shows(e, e.arg, 16, <<"0", "x">>)

(* vprintf finds every directive of the format where it was written, with  *)
(* its flags, width and length, and stops at the terminator...             *)
DirectivesFound ==
    /\ pos <= Len(fmt)
    /\ pos = Len(fmt) => Len(log) = Len(items)
    /\ \A i \in DOMAIN log :
          /\ log[i].conv = items[i].conv
          /\ items[i].conv # "char" =>
               /\ log[i].zero = items[i].zero /\ log[i].long = items[i].long
               /\ log[i].digit = IF items[i].minus THEN -items[i].width ELSE items[i].width

(* ...and every number it prints reads back as the argument, the smallest  *)
(* ones included, in the width asked for.                                  *)
PrintfFaithful == DirectivesFound /\ \A i \in DOMAIN log : ArgumentShown(log[i])
=============================================================================
