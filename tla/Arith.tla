------------------------------- MODULE Arith -------------------------------
\* The numbers of arith.c, with the n-ary functions of lib.c and the random
\* numbers of rand.c. A behaviour is a sequence of calls, each on the result of
\* the one before it and on an operand from outside, in either order. Bignums are
\* those of the MPI library, which src/ holds as an archive and its patches: it is
\* followed as far as a bignum has one digit, and a digit is as wide as a cnum.
EXTENDS Integers, Sequences

CONSTANTS CNUM_BIT,   \* the bits of a cnum (64, 32)
          RAND_BIT,   \* the bits rand32 gives (32)
          CHAR_MAX,   \* the last character (0x10FFFF)
          Operands,   \* the integers a call may be given
          Floats,     \* the whole numbers given as floating point numbers
          MaxResult         \* the bound on the values a result may have

ASSUME ArithSizes ==
  /\ CNUM_BIT \in Nat /\ CNUM_BIT >= 4 /\ RAND_BIT \in Nat \ {0}
  /\ CHAR_MAX \in Nat /\ MaxResult \in Nat /\ Operands \subseteq Int /\ Floats \subseteq Int

VARIABLES double, \* the compiler has an integer of twice the bits of a cnum
          call    \* the last call: the function, its arguments and its result

vars == <<double, call>>

Pow2[n \in Nat] == IF n = 0 THEN 1 ELSE 2 * Pow2[n - 1]

\* All that is followed is held in one digit: the library loses the carries from
\* one digit to the next.
ASSUME OneDigit == MaxResult < Pow2[CNUM_BIT] /\ Operands \subseteq -MaxResult .. MaxResult

INT_PTR_MAX == Pow2[CNUM_BIT - 1] - 1
NUM_MAX == INT_PTR_MAX \div 4
NUM_MIN == -NUM_MAX

Of(kind, n) == [kind |-> kind, n |-> n]
Fix(n) == Of("fix", n)
Big(n) == Of("big", n)
Flo(n) == Of("flo", n)
Error == Of("error", 0)
Truth(p) == Of(IF p THEN "t" ELSE "nil", 0)

integerp(x) == x.kind \in {"fix", "big"}
numberp(x) == integerp(x) \/ x.kind = "flo"
\* Both are numbers and one is floating point: the other is converted.
AsFloats(x, y) == numberp(x) /\ numberp(y) /\ "flo" \in {x.kind, y.kind}
AsIntegers(x, y) == integerp(x) /\ integerp(y)

-----------------------------------------------------------------------------
Abs(n) == IF n < 0 THEN -n ELSE n
Sign(n) == IF n < 0 THEN -1 ELSE IF n > 0 THEN 1 ELSE 0
Quotient(a, b) == Sign(a) * Sign(b) * (Abs(a) \div Abs(b))
\* What a machine word of a cnum's size keeps of n.
Wrap(n) == LET m == n % Pow2[CNUM_BIT] IN IF m > INT_PTR_MAX THEN m - Pow2[CNUM_BIT] ELSE m

num(n) == IF n \in NUM_MIN .. NUM_MAX THEN Fix(n) ELSE Big(n)
\* Slip: the largest fixnum is left a bignum.
NormalizeLess(n) == IF Abs(n) >= NUM_MAX THEN Big(n) ELSE num(n)
\* The number of the lowest digit.
mp_get_intptr(n) == Sign(n) * (Abs(n) % Pow2[CNUM_BIT])
normalize(n) == IF Abs(n) > NUM_MAX THEN Big(n) ELSE num(mp_get_intptr(n))

\* highest_bit: the position of the highest bit set, from 1; a negative number
\* has the sign bit, which the tests leave out, and all ones below it.
highest_bit(n) == IF n < 0 THEN CNUM_BIT - 1 ELSE CHOOSE i \in 0 .. n : n < Pow2[i] /\ (i > 0 => n >= Pow2[i - 1])

\* The operations of the bignum library that are not plain arithmetic. Division by
\* a digit shifts for a power of two, and otherwise leaves the sign behind.
mp_div_d(a, d) ==
  IF d = 0 THEN Error
  ELSE Big(IF \E i \in 0 .. CNUM_BIT : d = Pow2[i] THEN Quotient(a, d) ELSE Abs(a) \div d)
mp_div(a, b) == IF b = 0 THEN Error ELSE Big(Quotient(a, b))
mp_mod(a, m) == IF m = 0 THEN IF a = 0 THEN Big(0) ELSE Error ELSE IF m < 0 THEN Error ELSE Big(a % m)
mp_mod_d(a, d) ==
  IF d = 0 /\ a # 0 THEN Error
  ELSE Big(IF Abs(a) > d THEN Abs(a) % d ELSE IF a < 0 THEN d - Abs(a) ELSE Abs(a))
mp_gcd(a, b) ==
  IF a = 0 /\ b = 0 THEN Error
  ELSE LET divides(d) == (a % d = 0) /\ (b % d = 0)
       IN  Big(CHOOSE d \in 1 .. Abs(a) + Abs(b) : divides(d) /\ \A e \in d + 1 .. Abs(a) + Abs(b) : ~divides(e))
mp_exptmod(a, b, m) ==
  LET p[i \in 0 .. b] == IF i = 0 THEN 1 ELSE (p[i - 1] * (a % m)) % m
  IN  IF b < 0 \/ m <= 0 THEN Error ELSE Big(p[b])
Power(a, b) == LET p[i \in 0 .. b] == IF i = 0 THEN 1 ELSE a * p[i - 1] IN p[b]
\* The sign is that of a for even powers, where it should be for odd ones.
mp_expt(a, b) ==
  IF b < 0 THEN Error ELSE Big(IF a < 0 /\ b % 2 = 0 THEN -Power(Abs(a), b) ELSE Power(Abs(a), b))

Normalized(r) == IF r = Error THEN Error ELSE normalize(r.n)
Negated(r) == IF r = Error THEN Error ELSE Big(-r.n)

-----------------------------------------------------------------------------
Character(n) == IF n \in 0 .. CHAR_MAX THEN Of("chr", n) ELSE Error

plus(x, y) ==
  CASE AsIntegers(x, y)                -> num(x.n + y.n)
    [] AsFloats(x, y)                  -> Flo(x.n + y.n)
    [] {x.kind, y.kind} = {"chr", "fix"} -> Character(x.n + y.n)
    [] OTHER                           -> Error

\* A bignum taken from a fixnum: the fixnum's sign is dropped.
minus(x, y) ==
  CASE x.kind = "fix" /\ y.kind = "big" -> normalize(Abs(x.n) - y.n)
    [] AsIntegers(x, y) /\ ~(x.kind = "fix" /\ y.kind = "big") -> num(x.n - y.n)
    [] AsFloats(x, y)                   -> Flo(x.n - y.n)
    [] x.kind = "chr" /\ y.kind = "chr" -> num(x.n - y.n)
    [] x.kind = "chr" /\ y.kind = "fix" -> Character(x.n - y.n)
    [] OTHER                            -> Error

neg(x) == CASE x.kind = "fix" -> num(-x.n) [] x.kind \in {"big", "flo"} -> Of(x.kind, -x.n) [] OTHER -> Error
abso(x) == CASE x.kind = "fix" -> num(Abs(x.n)) [] x.kind \in {"big", "flo"} -> Of(x.kind, Abs(x.n)) [] OTHER -> Error

\* Slip: a product that needs the sign bit is left to the machine.
ProductWide(a, b) ==
  IF double THEN num(a * b)
  ELSE IF highest_bit(Abs(a)) + highest_bit(Abs(b)) <= CNUM_BIT THEN num(Wrap(a * b)) ELSE Big(a * b)

Product(a, b) ==
  IF double THEN num(a * b)
  ELSE IF highest_bit(Abs(a)) + highest_bit(Abs(b)) < CNUM_BIT - 1 THEN num(Wrap(a * b)) ELSE Big(a * b)

\* A product with a bignum stays one; the sign of a fixnum on the left is lost.
mul(x, y) ==
  CASE x.kind = "fix" /\ y.kind = "fix" -> Product(x.n, y.n)
    [] x.kind = "fix" /\ y.kind = "big" -> Big(Abs(x.n) * y.n)
    [] x.kind = "big" /\ integerp(y)    -> Big(x.n * y.n)
    [] AsFloats(x, y)                   -> Flo(x.n * y.n)
    [] OTHER                            -> Error

trunc(x, y) ==
  CASE x.kind = "fix" /\ y.kind = "fix" -> IF y.n = 0 THEN Error ELSE num(Quotient(x.n, y.n))
    [] x.kind = "fix" /\ y.kind = "big" -> Fix(0)
    [] x.kind = "big" /\ y.kind = "fix" -> Normalized(IF y.n < 0 THEN Negated(mp_div_d(x.n, -y.n)) ELSE mp_div_d(x.n, y.n))
    [] x.kind = "big" /\ y.kind = "big" -> Normalized(mp_div(x.n, y.n))
    [] AsFloats(x, y) -> IF y.n = 0 THEN Error ELSE Flo(Quotient(x.n, y.n))
    [] OTHER          -> Error

\* dmod, and the same steps on integers: a negative modulus negates all three.
Floor(a, b) == IF b < 0 THEN -((-a) % (-b)) ELSE a % b
By(Mod(_, _), a, b) == IF b < 0 THEN Negated(Mod(-a, -b)) ELSE Mod(a, b)

mod(x, y) ==
  CASE x.kind = "fix" /\ y.kind = "fix" -> IF y.n = 0 THEN Error ELSE num(Floor(x.n, y.n))
    [] x.kind = "big" /\ y.kind = "fix" -> Normalized(By(mp_mod_d, x.n, y.n))
    [] integerp(x) /\ y.kind = "big"    -> Normalized(By(mp_mod, x.n, y.n))
    [] AsFloats(x, y) -> Flo(Floor(x.n, y.n))
    [] OTHER          -> Error

divi(x, y) == IF ~numberp(x) \/ ~numberp(y) \/ y.n = 0 THEN Error ELSE Flo(Quotient(x.n, y.n))

\* A comparison: of a fixnum and a bignum it tests the bignum's sign alone,
\* and that strictly.
Small(x) == x.kind \in {"fix", "chr"}
Compare(x, y, Holds(_, _), Strictly(_, _)) ==
  IF \E z \in {x, y} : ~numberp(z) /\ z.kind # "chr" THEN Error
  ELSE IF Small(x) /\ y.kind = "big" THEN Truth(Strictly(0, y.n))
  ELSE IF x.kind = "big" /\ Small(y) THEN Truth(Strictly(x.n, 0))
  ELSE Truth(Holds(x.n, y.n))

Greater(m, n) == m > n
Less(m, n) == m < n
AtLeast(m, n) == m >= n
AtMost(m, n) == m <= n
Same(m, n) == m = n
gt(x, y) == Compare(x, y, Greater, Greater)
lt(x, y) == Compare(x, y, Less, Less)
ge(x, y) == Compare(x, y, AtLeast, Greater)
le(x, y) == Compare(x, y, AtMost, Less)
numeq(x, y) == Compare(x, y, Same, Same)

zerop(x) == IF numberp(x) THEN Truth(x.kind # "big" /\ x.n = 0) ELSE Error
evenp(x) == IF integerp(x) THEN Truth(x.n % 2 = 0) ELSE Error
oddp(x) == IF integerp(x) THEN Truth(x.n % 2 # 0) ELSE Error

expt(x, y) ==
  IF (~AsFloats(x, y) /\ ~AsIntegers(x, y)) \/ y.n < 0 THEN Error
  ELSE IF AsFloats(x, y) THEN Flo(Power(x.n, y.n))
  ELSE IF y = Fix(0) THEN Fix(1)
  ELSE IF y = Fix(1) THEN x
  ELSE IF y.kind = "fix" THEN normalize(Power(x.n, y.n))
  ELSE IF x.kind = "fix" THEN Normalized(mp_expt(x.n, y.n))
  ELSE mp_expt(x.n, y.n)

exptmod(x, y, m) ==
  IF integerp(x) /\ integerp(y) /\ integerp(m) THEN Normalized(mp_exptmod(x.n, y.n, m.n)) ELSE Error

\* The bits of the root, tried from the highest it can have. mp_sqrt stops before
\* the last; it is the sign of its result, a new number, that it looks at.
RootBits(a) == highest_bit(a) \div 2 + 1
Root(a, bits) ==
  LET try(root, mask) == IF (root + mask) * (root + mask) <= a THEN root + mask ELSE root
      root[i \in 0 .. RootBits(a)] == IF i = 0 THEN 0 ELSE try(root[i - 1], Pow2[RootBits(a) - i])
  IN  root[bits]
isqrt_fixnum(a) == Root(a, RootBits(a))
mp_sqrt(a) == Root(Abs(a), RootBits(Abs(a)) - 1)
isqrt(x) ==
  CASE x.kind = "fix" -> IF x.n < 0 THEN Error ELSE Fix(isqrt_fixnum(x.n))
    [] x.kind = "big" -> normalize(mp_sqrt(x.n))
    [] OTHER          -> Error

gcd(x, y) == CASE ~AsIntegers(x, y) -> Error [] x = Fix(0) /\ AsIntegers(x, y) -> Fix(0) [] OTHER -> mp_gcd(x.n, y.n)

\* A number with a sign is no number to int_flo, which reads its digits.
int_flo(x) == IF x.kind = "flo" /\ x.n >= 0 THEN num(x.n) ELSE Error
flo_int(x) == IF integerp(x) THEN Flo(x.n) ELSE Error

-----------------------------------------------------------------------------
\* The functions of any number of arguments, of lib.c.
Folded(Op(_, _), l) == LET r[i \in 1 .. Len(l)] == IF i = 1 THEN l[1] ELSE Op(r[i - 1], l[i]) IN r[Len(l)]
plusv(l) == IF l = <<>> THEN Fix(0) ELSE Folded(plus, l)
minusv(l) == IF Len(l) > 1 THEN Folded(minus, l) ELSE neg(l[1])
mulv(l) == IF l = <<>> THEN Fix(1) ELSE Folded(mul, l)
\* Each against the next; the first pair that fails settles it.
Settled(r) ==
  LET stop == {i \in DOMAIN r : r[i] # Truth(TRUE)}
  IN  IF stop = {} THEN Truth(TRUE) ELSE r[CHOOSE i \in stop : \A j \in stop : i <= j]
Chain(Op(_, _), l) == Settled([i \in 1 .. Len(l) - 1 |-> Op(l[i], l[i + 1])])
max2(x, y) == IF ge(x, y) = Truth(TRUE) THEN x ELSE y
min2(x, y) == IF le(x, y) = Truth(TRUE) THEN x ELSE y
maxv(l) == Folded(max2, l)
minv(l) == Folded(min2, l)

\* The numbers random may draw below m. The words are masked to m's bits from
\* the first, the highest; the mask is undefined when they fill the last word.
Draws(m) ==
  LET bits == highest_bit(Abs(m))
      words == (bits + RAND_BIT - 1) \div RAND_BIT
      over == bits % RAND_BIT
      firsts == IF over > 0 THEN 0 .. Pow2[over] - 1 ELSE 0 .. Pow2[RAND_BIT] - 1
      word(i) == IF i = 1 THEN firsts ELSE 0 .. Pow2[RAND_BIT] - 1
      drawn[i \in 0 .. words] == IF i = 0 THEN {0} ELSE {n * Pow2[RAND_BIT] + w : n \in drawn[i - 1], w \in word(i)}
  IN  {n \in drawn[words] : n < m}

-----------------------------------------------------------------------------
Given == {num(n) : n \in Operands} \cup {Flo(n) : n \in Floats} \cup {Of("chr", 1)}

Ready(r) == [fn |-> "none", args |-> <<>>, r |-> r]
Init == double \in BOOLEAN /\ \E x \in Given : call = Ready(x)

Waiting == call.fn = "none"
Return(fn, args, r) == /\ Abs(r.n) <= MaxResult
                       /\ call' = [fn |-> fn, args |-> args, r |-> r] /\ UNCHANGED double
Pairs == {p \in {<<call.r, x>> : x \in Given} \cup {<<x, call.r>> : x \in Given} \cup {<<call.r, call.r>>} : numberp(call.r) \/ call.r.kind = "chr"}
Call1(fn, Op(_)) == Waiting /\ numberp(call.r) /\ Return(fn, <<call.r>>, Op(call.r))
Call2(fn, Op(_, _)) == Waiting /\ \E p \in Pairs : Return(fn, p, Op(p[1], p[2]))
Lists == {<<p[1], p[2], p[1]>> : p \in Pairs} \cup {<<call.r>>}
CallV(fn, Op(_)) == Waiting /\ \E l \in Lists : Return(fn, l, Op(l))
\* What Op gives on the way is within the bound as well.
CallF(fn, Op(_, _), Opv(_)) ==
  Waiting /\ \E l \in Lists : (\A i \in 1 .. Len(l) : Abs(Folded(Op, SubSeq(l, 1, i)).n) <= MaxResult) /\ Return(fn, l, Opv(l))

Plus == Call2("plus", plus) \/ CallF("plusv", plus, plusv)
Minus == Call2("minus", minus) \/ CallF("minusv", minus, minusv)
Mul == Call2("mul", mul) \/ CallF("mulv", mul, mulv)
Neg == Call1("neg", neg) \/ Call1("abso", abso)
Trunc == Call2("trunc", trunc)
\* The modulus of two floating point numbers is not a number for 0.
Mod == Waiting /\ \E p \in Pairs : ~(AsFloats(p[1], p[2]) /\ p[2].n = 0) /\ Return("mod", p, mod(p[1], p[2]))
\* Only quotients that are whole are followed.
Divi == Waiting /\ \E p \in Pairs : (p[2].n # 0 => p[1].n % Abs(p[2].n) = 0) /\ Return("divi", p, divi(p[1], p[2]))
Parity == Call1("zerop", zerop) \/ Call1("evenp", evenp) \/ Call1("oddp", oddp)
Gt == Call2("gt", gt) \/ CallV("gtv", LAMBDA l : Chain(gt, l))
Lt == Call2("lt", lt) \/ CallV("ltv", LAMBDA l : Chain(lt, l))
Ge == Call2("ge", ge) \/ CallV("gev", LAMBDA l : Chain(ge, l)) \/ CallV("maxv", maxv)
Le == Call2("le", le) \/ CallV("lev", LAMBDA l : Chain(le, l)) \/ CallV("minv", minv)
Numeq == Call2("numeq", numeq) \/ CallV("numeqv", LAMBDA l : Chain(numeq, l))
\* Powers are followed as far as their exponents are small.
Expt == Waiting /\ \E p \in Pairs : (p[2].n <= 3 \/ Abs(p[1].n) <= 1) /\ Return("expt", p, expt(p[1], p[2]))
Exptmod == Waiting /\ \E x \in Given, m \in Given : Abs(x.n) <= MaxResult /\ Return("exptmod", <<call.r, x, m>>, exptmod(call.r, x, m))
Isqrt == Call1("isqrt", isqrt)
Gcd == Call2("gcd", gcd)
FloInt == Call1("int_flo", int_flo) \/ Call1("flo_int", flo_int)
\* random: a fixnum below 1 is refused; a bignum below 1 is never answered.
Random ==
  /\ Waiting /\ integerp(call.r)
  /\ IF call.r.kind = "fix" /\ call.r.n <= 0 THEN Return("random", <<call.r>>, Error)
     ELSE \E n \in Draws(call.r.n) : Return("random", <<call.r>>, num(n))

\* The result becomes the operand of the calls that follow, but for a product that
\* a double cnum holds: mp_set_double_intptr leaves it a leading digit of 0, for
\* which the library takes it to be longer than it is.
LeadingZero == double /\ call.fn \in {"mul", "mulv"} /\ call.r.kind = "big"
Use == ~Waiting /\ ~LeadingZero /\ call' = Ready(call.r) /\ UNCHANGED double

Next ==
  \/ Use
  \/ Plus \/ Minus \/ Mul \/ Neg \/ Trunc \/ Mod \/ Divi \/ Parity \/ Gt \/ Lt \/ Ge \/ Le \/ Numeq
  \/ Expt \/ Exptmod \/ Isqrt \/ Gcd \/ FloInt \/ Random

Spec == Init /\ [][Next]_vars

-----------------------------------------------------------------------------
Canonical(x) == /\ x.kind = "fix" => x.n \in NUM_MIN .. NUM_MAX
                /\ x.kind = "big" => x.n \notin NUM_MIN .. NUM_MAX
CanonicalCall == \A i \in DOMAIN call.args : Canonical(call.args[i])

\* An integer has one representation: only gcd, and a product of a bignum with
\* 0, put one that would fit a fixnum in a bignum. The comparisons, trunc and
\* zerop rely on it.
OneRepresentation ==
  (call.args # <<>> /\ CanonicalCall) => Canonical(call.r) \/ call.fn = "gcd" \/ (call.fn \in {"mul", "mulv"} /\ call.r = Big(0))

\* The calls whose result has the wrong sign: arith.c drops that of a fixnum before
\* a bignum (minus, mul), the library that of a negative bignum that a digit
\* divides (trunc, mod), and gives powers of a negative number the wrong one.
SignLost(fn, l) ==
  LET x == l[1]
      y == IF Len(l) > 1 THEN l[2] ELSE x
  IN  \/ fn \in {"minus", "mul"} /\ x.kind = "fix" /\ y.kind = "big" /\ x.n < 0
      \/ fn = "trunc" /\ x.kind = "big" /\ y.kind = "fix" /\ x.n < 0
      \/ fn = "mod" /\ x.kind = "big" /\ y.kind = "fix" /\ Sign(x.n) # Sign(y.n)
      \/ fn = "expt" /\ y.kind = "big" /\ x.n < 0
      \/ fn \in {"minusv", "mulv"} /\ Len(l) > 1 /\ \E i \in DOMAIN l : l[i].kind = "big"

Total(l) == LET t[i \in 0 .. Len(l)] == IF i = 0 THEN 0 ELSE t[i - 1] + l[i].n IN t[Len(l)]
Times(l) == LET t[i \in 0 .. Len(l)] == IF i = 0 THEN 1 ELSE t[i - 1] * l[i].n IN t[Len(l)]
IsQuotient(q, a, b) == Abs(a - q * b) < Abs(b) /\ q * b * a >= 0 /\ Abs(q * b) <= Abs(a)
IsModulo(r, a, b) == (a - r) % Abs(b) = 0 /\ r * b >= 0 /\ Abs(r) < Abs(b)
IsRoot(r, a) == r >= 0 /\ r * r <= a /\ a < (r + 1) * (r + 1)
IsEvenRoot(r, a) == r >= 0 /\ r % 2 = 0 /\ r * r <= a /\ a < (r + 2) * (r + 2)
IsGcd(d, a, b) == d > 0 /\ (a % d = 0) /\ (b % d = 0) /\ \A e \in 1 .. Abs(a) + Abs(b) : (a % e = 0) /\ (b % e = 0) => e <= d
InOrder(Op(_, _), l) == Truth(\A i \in 1 .. Len(l) - 1 : Op(l[i].n, l[i + 1].n))

\* What arithmetic says of r, the result of fn for the integers l.
Exact(fn, l, r) ==
  LET a == l[1].n
      b == IF Len(l) > 1 THEN l[2].n ELSE a
  IN  /\ fn \in {"plus", "plusv"} => r.n = Total(l)
      /\ fn \in {"mul", "mulv"} => r.n = Times(l)
      /\ fn \in {"minus", "minusv"} => r.n = IF Len(l) = 1 THEN -a ELSE 2 * a - Total(l)
      /\ fn = "neg" => r.n = -a
      /\ fn = "abso" => r.n = Abs(a)
      /\ fn = "trunc" => IF b = 0 THEN r = Error ELSE integerp(r) /\ IsQuotient(r.n, a, b)
      /\ fn = "mod" => IF b = 0 THEN r = Error ELSE integerp(r) /\ IsModulo(r.n, a, b)
      /\ fn = "zerop" => r = Truth(a = 0)
      /\ fn = "evenp" => r = Truth(\E h \in -Abs(a) .. Abs(a) : a = 2 * h)
      /\ fn = "oddp" => r = Truth(\A h \in -Abs(a) .. Abs(a) : a # 2 * h)
      /\ fn \in {"gt", "gtv"} => r = InOrder(Greater, l)
      /\ fn \in {"lt", "ltv"} => r = InOrder(Less, l)
      /\ fn \in {"ge", "gev"} => r = InOrder(AtLeast, l)
      /\ fn \in {"le", "lev"} => r = InOrder(AtMost, l)
      /\ fn \in {"numeq", "numeqv"} => r = InOrder(Same, l)
      /\ fn = "maxv" => \A i \in DOMAIN l : r.n >= l[i].n
      /\ fn = "minv" => \A i \in DOMAIN l : r.n <= l[i].n
      /\ fn = "expt" => IF b < 0 THEN r = Error ELSE r.n = Power(a, b)
      /\ fn = "isqrt" /\ l[1].kind = "fix" => IF a < 0 THEN r = Error ELSE integerp(r) /\ IsRoot(r.n, a)
      /\ fn = "isqrt" /\ l[1].kind = "big" => integerp(r) /\ IsEvenRoot(r.n, Abs(a))
      /\ fn = "gcd" => IF a = 0 THEN r = Fix(0) ELSE IsGcd(r.n, a, b)
      /\ fn = "random" => IF a <= 0 THEN r = Error ELSE integerp(r) /\ r.n \in 0 .. a - 1

\* A call on integers, each in its one representation, gives what arithmetic
\* says, whatever mixture of fixnums and bignums of a digit it is given, with and
\* without a double cnum, or an error where there is nothing to give. Excepted are
\* the calls of SignLost, gcd of 0, which is documented to be 0, and the root of a
\* bignum, which is the largest even one, and that of a negative one its absolute
\* value's.
ArithExact ==
  LET l == call.args
  IN  (l # <<>> /\ CanonicalCall /\ (\A i \in DOMAIN l : integerp(l[i])) /\ ~SignLost(call.fn, l)) => Exact(call.fn, l, call.r)
=============================================================================
