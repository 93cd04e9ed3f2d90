--------------------------- MODULE CashDeskProofs ---------------------------
(***************************************************************************)
(* What holds of CashDesk for any sessions, sales, customers, payments,    *)
(* vouchers, accounts, periods and overlapping requests: tills, customers, *)
(* vouchers, statements and reports agree with the journal.                *)
(*                                                                         *)
(* The first part is about Books alone: what amounts of lines and entries  *)
(* add up to.  The invariant then says, document by document, which        *)
(* entries the journal has of it; what the reports add up to follows from  *)
(* it in one state.                                                        *)
(***************************************************************************)
EXTENDS CashDesk, SumTheorems, TLAPS

-----------------------------------------------------------------------------
(* Lines of an entry.                                                      *)

IsLines(l) == DOMAIN l \subseteq AccountCode /\ \A a \in DOMAIN l : l[a] \in Int

\* The sum of the lines on some accounts.
Part(l, A) == SumFunctionOnSet(l, DOMAIN l \cap A)

LEMMA AccountsAreFinite == IsFiniteSet(AccountCode)
<1>1. \A S : \A x : IsFiniteSet(S) => IsFiniteSet(S \cup {x})
  BY FS_AddElement
<1>2. IsFiniteSet({"1000"} \cup {"1010"} \cup {"1040"} \cup {"1100"})
  BY <1>1, FS_Singleton
<1>3. IsFiniteSet({"1400"} \cup {"2100"})
  BY <1>1, FS_Singleton
<1>4. IsFiniteSet({"2300"} \cup {"4000"})
  BY <1>1, FS_Singleton
<1>5. /\ Asset = {"1000"} \cup {"1010"} \cup {"1040"} \cup {"1100"}
      /\ Liability = {"1400"} \cup {"2100"}
      /\ Result = ({"2300"} \cup {"4000"}) \cup Expense
  BY DEF Asset, Liability, Result
<1>6. IsFiniteSet(Asset) /\ IsFiniteSet(Liability) /\ IsFiniteSet(Result)
  BY <1>2, <1>3, <1>4, <1>5, FS_Union, BooksAssumption
<1> QED
  BY <1>6, FS_Union DEF AccountCode

LEMMA LinesAreFinite ==
    ASSUME NEW l, IsLines(l), NEW A
    PROVE  IsFiniteSet(DOMAIN l \cap A)
  BY AccountsAreFinite, FS_Subset DEF IsLines

LEMMA PartInt ==
    ASSUME NEW l, IsLines(l), NEW A
    PROVE  Part(l, A) \in Int
  BY LinesAreFinite, SumInt DEF IsLines, Part

LEMMA OnIsPart ==
    ASSUME NEW e, IsLines(e.lines), NEW A
    PROVE  On(e, A) = Part(e.lines, A)
<1> DEFINE S == DOMAIN e.lines \cap A
           f == [a \in S |-> e.lines[a]]
<1>1. \A a \in S : f[a] = e.lines[a]
  OBVIOUS
<1>2. IsFiniteSet(S)
  BY LinesAreFinite
<1>3. On(e, A) = SumFunctionOnSet(f, S)
  BY DEF On, SumOver
<1>4. Part(e.lines, A) = SumFunctionOnSet(e.lines, S)
  BY DEF Part
<1> HIDE DEF f, S
<1> QED
  BY <1>1, <1>2, <1>3, <1>4, SumSame

LEMMA PartOfNone ==
    ASSUME NEW l, NEW A, DOMAIN l \cap A = {}
    PROVE  Part(l, A) = 0
  BY SumOfNone DEF Part

LEMMA PartJoins ==
    ASSUME NEW l, IsLines(l), NEW A, NEW B, A \cap B = {}
    PROVE  Part(l, A \cup B) = Part(l, A) + Part(l, B)
<1> DEFINE S == DOMAIN l \cap A
           T == DOMAIN l \cap B
<1>1. IsFiniteSet(S) /\ IsFiniteSet(T) /\ S \cap T = {} /\ DOMAIN l \cap (A \cup B) = S \cup T
  BY LinesAreFinite
<1>2. \A a \in S \cup T : l[a] \in Int
  BY DEF IsLines
<1>3. Part(l, A) = SumFunctionOnSet(l, S) /\ Part(l, B) = SumFunctionOnSet(l, T)
      /\ Part(l, A \cup B) = SumFunctionOnSet(l, S \cup T)
  BY <1>1 DEF Part
<1> HIDE DEF S, T
<1> QED
  BY <1>1, <1>2, <1>3, SumJoins

LEMMA PartOfOne ==
    ASSUME NEW l, IsLines(l), NEW a \in DOMAIN l
    PROVE  Part(l, {a}) = l[a]
<1>1. DOMAIN l \cap {a} = {} \cup {a} /\ l[a] \in Int
  BY DEF IsLines
<1>2. SumFunctionOnSet(l, {} \cup {a}) = SumFunctionOnSet(l, {}) + l[a]
  BY <1>1, FS_EmptySet, SumAdds
<1>3. SumFunctionOnSet(l, {}) = 0
  BY SumOfNone
<1>4. Part(l, {a}) = SumFunctionOnSet(l, {} \cup {a})
  BY <1>1 DEF Part
<1> QED
  BY <1>1, <1>2, <1>3, <1>4

LEMMA PartOfAll ==
    ASSUME NEW l, IsLines(l), Balances(l), NEW A, DOMAIN l \subseteq A
    PROVE  Part(l, A) = 0
<1> DEFINE f == [a \in DOMAIN l |-> l[a]]
<1>1. SumFunctionOnSet(f, DOMAIN l) = 0
  BY DEF Balances, SumOver
<1>2. \A a \in DOMAIN l : f[a] = l[a]
  OBVIOUS
<1>3. DOMAIN l \cap A = DOMAIN l /\ IsFiniteSet(DOMAIN l)
  BY LinesAreFinite
<1> HIDE DEF f
<1>4. SumFunctionOnSet(f, DOMAIN l) = SumFunctionOnSet(l, DOMAIN l)
  BY <1>2, <1>3, SumSame
<1> QED
  BY <1>1, <1>3, <1>4 DEF Part

\* A sum of amounts with their signs turned.
LEMMA SumTurns ==
    ASSUME NEW S, IsFiniteSet(S), NEW f, NEW g, \A x \in S : f[x] \in Int /\ g[x] = -f[x]
    PROVE  SumFunctionOnSet(g, S) = -SumFunctionOnSet(f, S)
<1> DEFINE z == [x \in S |-> 0]
<1>1. \A x \in S : z[x] = 0 /\ z[x] = f[x] + g[x] /\ g[x] \in Int
  OBVIOUS
<1> HIDE DEF z
<1>2. SumFunctionOnSet(z, S) = 0
  BY <1>1, SumOfZeros
<1>3. SumFunctionOnSet(z, S) = SumFunctionOnSet(f, S) + SumFunctionOnSet(g, S)
  BY <1>1, SumOfBoth
<1>4. SumFunctionOnSet(f, S) \in Int /\ SumFunctionOnSet(g, S) \in Int
  BY <1>1, SumInt
<1> QED
  BY <1>2, <1>3, <1>4

LEMMA PartReversed ==
    ASSUME NEW l, IsLines(l), NEW A
    PROVE  IsLines(Reversal(l)) /\ Part(Reversal(l), A) = -Part(l, A)
<1>1. DOMAIN Reversal(l) = DOMAIN l /\ \A a \in DOMAIN l : Reversal(l)[a] = -l[a]
  BY DEF Reversal
<1>2. \A a \in DOMAIN l : l[a] \in Int /\ Reversal(l)[a] \in Int
  BY <1>1 DEF IsLines
<1>3. SumFunctionOnSet(Reversal(l), DOMAIN l \cap A) = -SumFunctionOnSet(l, DOMAIN l \cap A)
  BY <1>1, <1>2, LinesAreFinite, SumTurns
<1> QED
  BY <1>1, <1>2, <1>3 DEF IsLines, Part

-----------------------------------------------------------------------------
(* Sets of entries.                                                        *)

AreEntries(E) == IsFiniteSet(E) /\ \A e \in E : IsLines(e.lines)

LEMMA EntriesWithin ==
    ASSUME NEW E, AreEntries(E), NEW F, F \subseteq E
    PROVE  AreEntries(F)
  BY FS_Subset DEF AreEntries

LEMMA NetIsSum ==
    ASSUME NEW E, AreEntries(E), NEW A
    PROVE  /\ Net(E, A) = SumFunctionOnSet([e \in E |-> Part(e.lines, A)], E)
           /\ \A e \in E : Part(e.lines, A) \in Int
           /\ Net(E, A) \in Int
<1> DEFINE f == [e \in E |-> On(e, A)]
           g == [e \in E |-> Part(e.lines, A)]
<1>1. \A e \in E : f[e] = g[e] /\ g[e] \in Int /\ Part(e.lines, A) \in Int
  BY OnIsPart, PartInt DEF AreEntries
<1>2. Net(E, A) = SumFunctionOnSet(f, E)
  BY DEF Net, SumOver
<1>3. IsFiniteSet(E)
  BY DEF AreEntries
<1>4. SumFunctionOnSet(f, E) = SumFunctionOnSet(g, E) /\ SumFunctionOnSet(g, E) \in Int
  <2> HIDE DEF f, g
  <2> QED
    BY <1>1, <1>3, SumSame, SumInt
<1> QED
  BY <1>1, <1>2, <1>4

LEMMA NetOfNone == ASSUME NEW A PROVE Net({}, A) = 0
  BY SumOfNone DEF Net, SumOver

LEMMA NetAdds ==
    ASSUME NEW E, AreEntries(E), NEW n, IsLines(n.lines), n \notin E, NEW A
    PROVE  AreEntries(E \cup {n}) /\ Net(E \cup {n}, A) = Net(E, A) + Part(n.lines, A)
<1>1. AreEntries(E \cup {n})
  BY FS_AddElement DEF AreEntries
<1> DEFINE f == [e \in E |-> Part(e.lines, A)]
           g == [e \in E \cup {n} |-> Part(e.lines, A)]
<1>2. Net(E, A) = SumFunctionOnSet(f, E)
  BY NetIsSum
<1>3. Net(E \cup {n}, A) = SumFunctionOnSet(g, E \cup {n})
  BY <1>1, NetIsSum
<1>4. \A e \in E : f[e] \in Int /\ g[e] = f[e]
  BY PartInt DEF AreEntries
<1>5. g[n] \in Int /\ g[n] = Part(n.lines, A)
  BY PartInt
<1>6. SumFunctionOnSet(g, E \cup {n}) = SumFunctionOnSet(f, E) + g[n]
  <2>1. IsFiniteSet(E) /\ n \notin E
    BY DEF AreEntries
  <2> HIDE DEF f, g
  <2>2. \A x \in E \cup {n} : g[x] \in Int
    BY <1>4, <1>5
  <2>3. SumFunctionOnSet(g, E \cup {n}) = SumFunctionOnSet(g, E) + g[n]
    BY <2>1, <2>2, SumAdds
  <2>4. SumFunctionOnSet(g, E) = SumFunctionOnSet(f, E)
    BY <1>4, <2>1, SumSame
  <2> QED
    BY <2>3, <2>4
<1> QED
  BY <1>1, <1>2, <1>3, <1>5, <1>6

LEMMA NetOfOne ==
    ASSUME NEW n, IsLines(n.lines), NEW A
    PROVE  Net({n}, A) = Part(n.lines, A)
<1>1. AreEntries({})
  BY FS_EmptySet DEF AreEntries
<1>2. Net({} \cup {n}, A) = Net({}, A) + Part(n.lines, A)
  BY <1>1, NetAdds
<1> QED
  BY <1>2, NetOfNone, PartInt

LEMMA NetJoins ==
    ASSUME NEW E, AreEntries(E), NEW F, AreEntries(F), E \cap F = {}, NEW A
    PROVE  AreEntries(E \cup F) /\ Net(E \cup F, A) = Net(E, A) + Net(F, A)
<1>1. AreEntries(E \cup F)
  BY FS_Union DEF AreEntries
<1> DEFINE f == [e \in E |-> Part(e.lines, A)]
           g == [e \in F |-> Part(e.lines, A)]
           h == [e \in E \cup F |-> Part(e.lines, A)]
<1>2. /\ Net(E, A) = SumFunctionOnSet(f, E) /\ Net(F, A) = SumFunctionOnSet(g, F)
      /\ Net(E \cup F, A) = SumFunctionOnSet(h, E \cup F)
      /\ \A e \in E \cup F : Part(e.lines, A) \in Int
  BY <1>1, NetIsSum
<1>3. /\ \A e \in E : h[e] = f[e]
      /\ \A e \in F : h[e] = g[e]
      /\ \A e \in E \cup F : h[e] \in Int
  BY <1>2
<1>4. IsFiniteSet(E) /\ IsFiniteSet(F)
  BY DEF AreEntries
<1> HIDE DEF f, g, h
<1>5. SumFunctionOnSet(h, E \cup F) = SumFunctionOnSet(h, E) + SumFunctionOnSet(h, F)
  BY <1>3, <1>4, SumJoins
<1>6. SumFunctionOnSet(h, E) = SumFunctionOnSet(f, E) /\ SumFunctionOnSet(h, F) = SumFunctionOnSet(g, F)
  BY <1>3, <1>4, SumSame
<1> QED
  BY <1>1, <1>2, <1>5, <1>6

LEMMA NetOfZeros ==
    ASSUME NEW E, AreEntries(E), NEW A, \A e \in E : Part(e.lines, A) = 0
    PROVE  Net(E, A) = 0
<1> DEFINE f == [e \in E |-> Part(e.lines, A)]
<1>1. \A e \in E : f[e] = 0
  OBVIOUS
<1>2. IsFiniteSet(E) /\ Net(E, A) = SumFunctionOnSet(f, E)
  BY NetIsSum DEF AreEntries
<1> HIDE DEF f
<1> QED
  BY <1>1, <1>2, SumOfZeros

LEMMA NetOfAccounts ==
    ASSUME NEW E, AreEntries(E), NEW A, NEW B, A \cap B = {}
    PROVE  Net(E, A \cup B) = Net(E, A) + Net(E, B)
<1> DEFINE f == [e \in E |-> Part(e.lines, A)]
           g == [e \in E |-> Part(e.lines, B)]
           h == [e \in E |-> Part(e.lines, A \cup B)]
<1>1. /\ Net(E, A) = SumFunctionOnSet(f, E) /\ Net(E, B) = SumFunctionOnSet(g, E)
      /\ Net(E, A \cup B) = SumFunctionOnSet(h, E)
  BY NetIsSum
<1>2. \A e \in E : f[e] \in Int /\ g[e] \in Int /\ h[e] = f[e] + g[e]
  BY NetIsSum, PartJoins DEF AreEntries
<1>3. IsFiniteSet(E)
  BY DEF AreEntries
<1> HIDE DEF f, g, h
<1> QED
  BY <1>1, <1>2, <1>3, SumOfBoth

(* The entries about a set of documents add up document by document.         *)
Of(E, r) == {e \in E : e.ref = r}

LEMMA NetByRef ==
    ASSUME NEW S, IsFiniteSet(S), NEW E, AreEntries(E), \A e \in E : e.ref \in S, NEW A
    PROVE  Net(E, A) = SumFunctionOnSet([r \in S |-> Net(Of(E, r), A)], S)
<1> DEFINE f == [r \in S |-> Net(Of(E, r), A)]
           In(s) == {e \in E : e.ref \in s}
           B == {s \in SUBSET S : Net(In(s), A) # SumFunctionOnSet(f, s)}
<1>1. \A r \in S : f[r] \in Int /\ f[r] = Net(Of(E, r), A)
  <2>1. \A r \in S : AreEntries(Of(E, r))
    BY EntriesWithin DEF Of
  <2> QED
    BY <2>1, NetIsSum
<1>2. ASSUME B # {} PROVE FALSE
  <2>0. B \subseteq SUBSET S
    OBVIOUS
  <2>1. PICK s \in B : \A r \in SUBSET s : r # s => r \notin B
    <3> HIDE DEF B
    <3> QED
      BY <1>2, <2>0, LeastBad
  <2>2. s \in SUBSET S /\ IsFiniteSet(s)
    BY FS_Subset
  <2>3. CASE s = {}
    <3>1. In(s) = {}
      BY <2>3
    <3> QED
      BY <2>3, <3>1, NetOfNone, SumOfNone
  <2>4. ASSUME NEW r \in s PROVE FALSE
    <3>1. PICK t : t = s \ {r}
      OBVIOUS
    <3>2. t \in SUBSET s /\ t # s /\ t \in SUBSET S /\ IsFiniteSet(t) /\ r \notin t /\ s = t \cup {r} /\ r \in S
      BY <2>2, <2>4, <3>1, FS_Subset
    <3>3. Net(In(t), A) = SumFunctionOnSet(f, t)
      BY <2>1, <3>2
    <3>4. In(s) = In(t) \cup Of(E, r) /\ In(t) \cap Of(E, r) = {}
      BY <3>1, <3>2 DEF Of
    <3>5. AreEntries(In(t)) /\ AreEntries(Of(E, r))
      BY EntriesWithin DEF Of
    <3>6. Net(In(s), A) = Net(In(t), A) + Net(Of(E, r), A)
      <4>1. PICK x : x = In(s)
        OBVIOUS
      <4>2. PICK y : y = In(t)
        OBVIOUS
      <4>3. PICK z : z = Of(E, r)
        OBVIOUS
      <4>4. x = y \cup z
        BY <3>4, <4>1, <4>2, <4>3
      <4>5. y \cap z = {}
        BY <3>4, <4>2, <4>3
      <4>6. AreEntries(y)
        BY <3>5, <4>2
      <4>7. AreEntries(z)
        BY <3>5, <4>3
      <4> HIDE DEF In, f, B
      <4>8. Net(y \cup z, A) = Net(y, A) + Net(z, A)
        BY <4>5, <4>6, <4>7, NetJoins
      <4> QED
        BY <4>1, <4>2, <4>3, <4>4, <4>8
    <3>7. SumFunctionOnSet(f, s) = SumFunctionOnSet(f, t) + f[r]
      <4> HIDE DEF f
      <4> QED
        BY <1>1, <3>2, SumAdds
    <3> QED
      BY <1>1, <3>2, <3>3, <3>6, <3>7
  <2> QED
    BY <2>3, <2>4
<1>3. In(S) = E
  OBVIOUS
<1> QED
  BY <1>2, <1>3


-----------------------------------------------------------------------------
(* The inductive invariant.                                                *)

BasketRow == [method : {"cash", "credit", "store_credit", "mpesa"},
              total : Nat, vat : Nat, change : Nat]
SessionRow == [status : {"none", "open", "closed"}, float : Nat, expected : Int,
               counted : Int, variance : Int]
SaleRow == [status : {"none", "pending", "completed", "voided"}, basket : BasketRow,
            session : Session \cup {None}, customer : Customer \cup {None},
            created : 0 .. MaxTime, done : 0 .. MaxTime]
CustomerRow == [balance : Int, wallet : Int]
PaymentRow == [customer : Customer \cup {None}, amount : Nat]
VoucherRow == [status : {"none", "live", "void"}, account : Expense \cup {None},
               amount : Nat, day : Day]
PeriodRow == [status : {"none", "open", "closed", "locked"}, last : Day]

\* Types of the rows.
TypeOK ==
    /\ session \in [Session -> SessionRow] /\ sale \in [Sale -> SaleRow]
    /\ customer \in [Customer -> CustomerRow] /\ payment \in [Payment -> PaymentRow]
    /\ voucher \in [Voucher -> VoucherRow] /\ period \in [Period -> PeriodRow]
    /\ time \in 0 .. MaxTime /\ waived \in [Customer -> Int] /\ crossed \subseteq Sale

Has(type, ref) == \E e \in journal : e.type = type /\ e.ref = ref

\* What a request knows between its reading and its commit.
Knows(row) ==
    /\ row.op = "sell" => /\ row.on \in Session /\ session[row.on].status # "none"
                          /\ row.seen \in Int
    /\ row.op \in {"void", "unsell", "fail", "confirm", "settle"} =>
          row.on \in Sale /\ sale[row.on].status # "none"
    /\ row.op \in {"fail", "confirm", "settle"} => sale[row.on].basket.method = "mpesa"
    /\ row.op \in {"unsell", "settle"} => row.seen = 0 \/ Has("transaction", row.on)
    /\ row.op = "unsell" /\ sale[row.on].basket.method # "mpesa" =>
          row.seen = Cardinality(Originals(row.on))
    /\ row.op = "adjust" => row.on \in Customer /\ row.seen \in Int
    /\ row.op = "unspend" => /\ row.on \in Voucher /\ voucher[row.on].status # "none"
                             /\ row.seen \in Nat /\ row.seen <= Cardinality(Reversals(row.on))
    /\ row.op = "deactivate" => row.on \in AccountCode \ System

HandlersKnow == DOMAIN handler = Handler /\ \A h \in Handler : Knows(handler[h])

EntryType == {"cash_session_open", "cash_session_close", "transaction", "void",
              "customer_payment", "expense_voucher", "expense_void"}

Single(type) == type \notin {"expense_void", "transaction"}
DatedAhead(type) == type \in {"expense_voucher", "customer_payment"}

\* Entries add up, are told apart by their copies, are there once for each document
\* but for reversals of vouchers and sales, and only vouchers and payments are dated
\* ahead.
JournalSound ==
    /\ IsFiniteSet(journal)
    /\ \A e \in journal :
          /\ e.type \in EntryType /\ e.day \in Day /\ IsLines(e.lines) /\ Balances(e.lines)
          /\ e.copy \in Nat /\ e.copy < Cardinality(About(journal, {e.type}, {e.ref}))
          /\ e.day <= Today \/ DatedAhead(e.type)
    /\ \A e, f \in journal : e.type = f.type /\ e.ref = f.ref /\ Single(e.type) => e = f

\* An entry of a session has its float or its variance.
OfSession(e) ==
    /\ e.ref \in Session
    /\ \/ /\ e.type = "cash_session_open" /\ session[e.ref].status # "none"
          /\ session[e.ref].float # 0 /\ e.lines = FloatLines(session[e.ref].float)
          /\ <<e.type, e.ref>> \notin pending
       \/ /\ e.type = "cash_session_close" /\ session[e.ref].status = "closed"
          /\ session[e.ref].variance # 0 /\ e.lines = VarianceLines(session[e.ref].variance)
          /\ <<e.type, e.ref>> \notin pending

SessionBooks ==
    /\ \A s \in Session :
          /\ session[s].status = "none" => session[s].float = 0
          /\ session[s].status # "closed" => session[s].variance = 0
          /\ session[s].float # 0 =>
                Has("cash_session_open", s) \/ <<"cash_session_open", s>> \in pending
          /\ session[s].variance # 0 =>
                Has("cash_session_close", s) \/ <<"cash_session_close", s>> \in pending
          /\ <<"cash_session_open", s>> \in pending => session[s].float # 0
          /\ <<"cash_session_close", s>> \in pending => session[s].variance # 0
    /\ \A e \in journal : e.type \in {"cash_session_open", "cash_session_close"} => OfSession(e)

\* A sale that was completed has its entry, and its reversal when that was posted.
\* One that was crossed may have more entries, of other days, and stand reversed.
OfSale(e) ==
    /\ e.ref \in Sale
    /\ \/ /\ e.type = "transaction" /\ sale[e.ref].status \in {"completed", "voided"}
          /\ e.lines = SaleLines(sale[e.ref].basket)
          /\ e.ref \in crossed \/ e.day = UtcDay(sale[e.ref].done)
       \/ /\ e.type = "void" /\ sale[e.ref].status \in {"completed", "voided"}
          /\ e.ref \in crossed \/ sale[e.ref].status = "voided"
          /\ e.lines = Reversal(SaleLines(sale[e.ref].basket)) /\ Has("transaction", e.ref)

SaleShape(r) ==
    /\ r.status = "none" => r = NoSale
    /\ r.status # "none" => /\ r.basket \in Basket
                            /\ r.status = "pending" => r.basket.method = "mpesa"
                            /\ IF r.basket.method = "cash"
                               THEN /\ r.customer = None /\ r.session \in Session
                                    /\ session[r.session].status # "none"
                               ELSE /\ r.session = None
                                    /\ IF r.basket.method = "mpesa" THEN r.customer = None
                                       ELSE r.customer \in Customer

SaleBooks ==
    /\ \A t \in Sale :
          /\ SaleShape(sale[t])
          /\ sale[t].status = "completed" => Has("transaction", t)
          /\ t \in crossed => /\ sale[t].status \in {"completed", "voided"}
                              /\ sale[t].basket.method = "mpesa"
          /\ t \notin crossed => \A e, f \in Originals(t) : e = f
    /\ \A e \in journal : e.type \in {"transaction", "void"} => OfSale(e)

\* A payment has its entry.
OfPayment(e) ==
    /\ e.ref \in Payment /\ payment[e.ref] # NoPayment
    /\ e.lines = PaymentLines(payment[e.ref].amount)

PaymentBooks ==
    /\ \A p \in Payment : /\ payment[p].customer = None => payment[p] = NoPayment
                          /\ payment[p] # NoPayment => Has("customer_payment", p)
    /\ \A e \in journal : e.type = "customer_payment" => OfPayment(e)

\* A voucher has its entry, and its reversals when it is void.
OfVoucher(e) ==
    /\ e.ref \in Voucher
    /\ LET row == voucher[e.ref]
           lines == VoucherLines(row.account, row.amount) IN
       \/ e.type = "expense_voucher" /\ row.status # "none" /\ e.lines = lines /\ e.day = row.day
       \/ e.type = "expense_void" /\ row.status = "void" /\ e.lines = Reversal(lines)

VoucherBooks ==
    /\ \A v \in Voucher :
          /\ voucher[v].status = "none" => voucher[v] = NoVoucher
          /\ voucher[v].status # "none" => voucher[v].account \in Expense /\ Has("expense_voucher", v)
          /\ voucher[v].status = "void" => Has("expense_void", v)
          /\ v \notin raced => \A e, f \in Reversals(v) : e = f
    /\ \A e \in journal : e.type \in {"expense_voucher", "expense_void"} => OfVoucher(e)

\* What the completed sales of a session left in the till.
Tendered(sales, s) ==
    SumOver({t \in CompletedIn(sales, Sale) : sales[t].session = s},
            LAMBDA t : sales[t].basket.total - sales[t].basket.change)

TillsTell ==
    /\ "open" \notin raced => \A r, s \in OpenSessions : r = s
    /\ \A s \in Session :
          /\ s \notin raced => session[s].expected = session[s].float + Tendered(sale, s)
          /\ session[s].status = "closed" /\ s \notin raced \cup late =>
                session[s].variance = session[s].counted - (session[s].float + Tendered(sale, s))

\* What the completed sales of a method charged to a customer.
Charged(sales, c, method) ==
    SumOver({t \in CompletedIn(sales, Sale) : sales[t].customer = c
                                              /\ sales[t].basket.method = method},
            LAMBDA t : sales[t].basket.total)

PaidBy(payments, c) ==
    SumOver({p \in Payment : payments[p].customer = c}, LAMBDA p : payments[p].amount)

CustomersTell ==
    \A c \in Customer :
       /\ Limit > 0 => customer[c].balance <= Limit
       /\ c \notin edited =>
             /\ customer[c].balance = Charged(sale, c, "credit") - PaidBy(payment, c) + waived[c]
             /\ customer[c].wallet = Wallet - Charged(sale, c, "store_credit")

\* A void of an entry it could see leaves no reversal only while a period is closed.
VoidsTell ==
    Unreversed \ crossed # {} => \E q \in Period : period[q].status \notin {"none", "open"}

\* An inactive account with lines was booked by a voucher, or while it was deactivated.
HiddenTell ==
    /\ inactive \cap System = {}
    /\ \A a \in inactive \cap Touched(journal) :
          a \in raced \/ \E v \in Voucher : voucher[v].status # "none" /\ voucher[v].account = a

DeskInv ==
    /\ TypeOK /\ HandlersKnow /\ JournalSound /\ SessionBooks /\ SaleBooks /\ PaymentBooks
    /\ VoucherBooks /\ TillsTell /\ CustomersTell /\ VoidsTell /\ HiddenTell

-----------------------------------------------------------------------------
(* Days, lines, and a posting.                                             *)

LEMMA DaysOrdered ==
    /\ Last \in Nat /\ Day = 0 .. Last
    /\ \A t \in 0 .. MaxTime : UtcDay(t) \in Day /\ ShopDay(t) \in Day /\ UtcDay(t) <= ShopDay(t)
    /\ \A t, u \in 0 .. MaxTime : t <= u => ShopDay(t) <= ShopDay(u)
  BY CashDeskAssumption DEF Last, Day, UtcDay, ShopDay

LEMMA TransferLines ==
    ASSUME NEW a \in AccountCode, NEW b \in AccountCode, NEW amount \in Int
    PROVE  IsLines(Transfer(a, b, amount)) /\ DOMAIN Transfer(a, b, amount) = {a, b}
  BY DEF IsLines, Transfer

LEMMA DocumentLines ==
    /\ \A amount \in Int : /\ IsLines(FloatLines(amount)) /\ IsLines(VarianceLines(amount))
                           /\ IsLines(PaymentLines(amount))
                           /\ \A code \in Expense : IsLines(VoucherLines(code, amount))
    /\ \A b \in BasketRow : IsLines(SaleLines(b))
<1>1. {"1000", "1010", "1040", "1100", "1400", "2100", "2300", "4000"} \cup Expense = AccountCode
  BY DEF AccountCode, Asset, Liability, Result
<1>2. ASSUME NEW amount \in Int
      PROVE  /\ IsLines(FloatLines(amount)) /\ IsLines(VarianceLines(amount))
             /\ IsLines(PaymentLines(amount))
             /\ \A code \in Expense : IsLines(VoucherLines(code, amount))
  BY <1>1, TransferLines DEF FloatLines, VarianceLines, PaymentLines, VoucherLines
<1>3. ASSUME NEW b \in BasketRow PROVE IsLines(SaleLines(b))
  <2>1. PaidInto[b.method] \in {"1000", "1010", "1100", "1400"}
    BY DEF BasketRow, PaidInto
  <2>2. b.total \in Int /\ b.vat \in Int /\ b.vat - b.total \in Int /\ -b.vat \in Int
    BY DEF BasketRow
  <2>3. DOMAIN SaleLines(b) \subseteq AccountCode
    BY <1>1, <2>1 DEF SaleLines
  <2>4. \A a \in DOMAIN SaleLines(b) : SaleLines(b)[a] \in Int
    BY <2>2 DEF SaleLines
  <2> QED
    BY <2>3, <2>4 DEF IsLines
<1> QED
  BY <1>2, <1>3

LEMMA Reversed ==
    ASSUME NEW l, IsLines(l)
    PROVE  IsLines(Reversal(l)) /\ DOMAIN Reversal(l) = DOMAIN l
  BY PartReversed DEF Reversal

LEMMA EntrySound ==
    ASSUME JournalSound, NEW e \in journal
    PROVE  /\ e.type \in EntryType /\ e.day \in Day /\ IsLines(e.lines) /\ Balances(e.lines)
           /\ e.copy \in Nat /\ e.copy < Cardinality(About(journal, {e.type}, {e.ref}))
           /\ e.day <= Today \/ DatedAhead(e.type)
<1> HIDE DEF EntryType, Day, IsLines, Balances, About, Today
<1> QED
  BY DEF JournalSound

\* A posting adds one entry, which is not in the journal already.
LEMMA Posted ==
    ASSUME JournalSound, NEW type \in EntryType, NEW ref, NEW day \in Day, NEW lines, IsLines(lines),
           Post(type, ref, day, lines), time' = time,
           day <= Today \/ DatedAhead(type),
           Single(type) => ~Has(type, ref)
    PROVE  /\ JournalSound'
           /\ \E n : /\ n \notin journal /\ journal' = journal \cup {n}
                     /\ n.type = type /\ n.ref = ref /\ n.day = day /\ n.lines = lines
<1> DEFINE same == About(journal, {type}, {ref})
<1>1. PICK n : n = Entry(type, ref, day, lines)
  OBVIOUS
<1>2. /\ n.type = type /\ n.ref = ref /\ n.day = day /\ n.lines = lines
      /\ n.copy = Cardinality(same)
  BY <1>1 DEF Entry
<1>3. journal' = journal \cup {n} /\ Balances(lines)
  BY <1>1 DEF Post
<1>4. \A s : s \in SUBSET journal => IsFiniteSet(s) /\ Cardinality(s) \in Nat
  BY FS_Subset, FS_CardinalityType DEF JournalSound
<1>5. same \in SUBSET journal
  BY DEF About
<1>6. n \notin journal
  <2>1. PICK k : k = Cardinality(same)
    OBVIOUS
  <2>2. k \in Nat /\ n.copy = k
    BY <1>2, <1>4, <1>5, <2>1
  <2>3. n \in journal => n.copy < Cardinality(About(journal, {n.type}, {n.ref}))
    BY EntrySound
  <2>4. n \in journal => n.copy < k
    BY <1>2, <2>1, <2>3
  <2> QED
    BY <2>2, <2>4
<1>7. IsFiniteSet(journal')
  BY <1>3, FS_AddElement DEF JournalSound
<1>8. ASSUME NEW e \in journal'
      PROVE  e.copy < Cardinality(About(journal', {e.type}, {e.ref}))
  <2> DEFINE now == About(journal', {e.type}, {e.ref})
  <2>1. IsFiniteSet(now) /\ Cardinality(now) \in Nat
    BY <1>7, FS_Subset, FS_CardinalityType DEF About
  <2>2. CASE e \in journal
    <3> DEFINE old == About(journal, {e.type}, {e.ref})
    <3>1. old \subseteq now /\ old \in SUBSET journal
      BY <1>3 DEF About
    <3>2. Cardinality(old) <= Cardinality(now) /\ Cardinality(old) \in Nat
      BY <1>4, <2>1, <3>1, FS_Subset
    <3>3. e.copy < Cardinality(old) /\ e.copy \in Nat
      BY <2>2, EntrySound
    <3>4. PICK j, k : j = Cardinality(old) /\ k = Cardinality(now)
      OBVIOUS
    <3>5. j \in Nat /\ k \in Nat /\ j <= k /\ e.copy < j /\ e.copy \in Nat
      BY <2>1, <3>2, <3>3, <3>4
    <3>6. e.copy < k
      BY <3>5
    <3> QED
      BY <3>4, <3>6
  <2>3. CASE e = n
    <3>1. now = same \cup {n} /\ n \notin same
      BY <1>2, <1>3, <1>6, <2>3 DEF About
    <3>2. Cardinality(now) = Cardinality(same) + 1
      BY <1>4, <1>5, <3>1, FS_AddElement
    <3>3. Cardinality(same) \in Nat
      BY <1>4, <1>5
    <3>4. PICK j, k : j = Cardinality(same) /\ k = Cardinality(now)
      OBVIOUS
    <3>5. j \in Nat /\ k = j + 1 /\ e.copy = j
      BY <1>2, <2>3, <3>2, <3>3, <3>4
    <3>6. e.copy < k
      BY <3>5
    <3> QED
      BY <3>4, <3>6
  <2> QED
    BY <1>3, <2>2, <2>3
<1>9. ASSUME NEW e \in journal'
      PROVE  /\ e.type \in EntryType /\ e.day \in Day /\ IsLines(e.lines) /\ Balances(e.lines)
             /\ e.copy \in Nat /\ (e.day <= Today' \/ DatedAhead(e.type))
  <2>1. Today' = Today
    BY DEF Today
  <2>2. Cardinality(same) \in Nat
    BY <1>4, <1>5
  <2> HIDE DEF same
  <2> QED
    BY <1>2, <1>3, <2>1, <2>2 DEF JournalSound
<1>10. ASSUME NEW e \in journal', NEW f \in journal',
              e.type = f.type, e.ref = f.ref, Single(e.type)
       PROVE  e = f
  BY <1>2, <1>3, <1>10 DEF JournalSound, Has
<1>11. JournalSound'
  BY <1>7, <1>8, <1>9, <1>10 DEF JournalSound
<1> QED
  BY <1>2, <1>3, <1>6, <1>11

-----------------------------------------------------------------------------
(* What a step leaves as it was.                                           *)

\* The journal stays, or gets one entry of some types.
Adds(types) == \/ journal' = journal
               \/ \E n : n.type \in types /\ n \notin journal /\ journal' = journal \cup {n}

SessionTypes == {"cash_session_open", "cash_session_close"}
SaleTypes == {"transaction", "void"}
VoucherTypes == {"expense_voucher", "expense_void"}

\* A document that was there stays there.
DocsStay ==
    /\ \A s \in Session : session[s].status # "none" => session'[s].status # "none"
    /\ \A t \in Sale : sale[t].status # "none" => /\ sale'[t].status # "none"
                                                 /\ sale'[t].basket = sale[t].basket
    /\ \A v \in Voucher : voucher[v].status # "none" => /\ voucher'[v].status # "none"
                                                       /\ voucher'[v].account = voucher[v].account

LEMMA JournalStays ==
    ASSUME JournalSound, journal' = journal, TypeOK, TypeOK', time <= time'
    PROVE  JournalSound'
<1>1. Today <= Today' /\ Today \in Day
  <2>1. time \in 0 .. MaxTime /\ time' \in 0 .. MaxTime
    BY DEF TypeOK
  <2> QED
    BY <2>1, DaysOrdered DEF Today
<1>2. ASSUME NEW e \in journal'
      PROVE  /\ e.type \in EntryType /\ e.day \in Day /\ IsLines(e.lines) /\ Balances(e.lines)
             /\ e.copy \in Nat /\ e.copy < Cardinality(About(journal', {e.type}, {e.ref}))
             /\ e.day <= Today' \/ DatedAhead(e.type)
  <2>1. e \in journal
    OBVIOUS
  <2>2. e.day <= Today => e.day <= Today'
    <3>1. e.day \in Int /\ Today \in Int /\ Today' \in Int
      <4>1. time' \in 0 .. MaxTime
        BY DEF TypeOK
      <4>2. Today' \in Day
        BY <4>1, DaysOrdered DEF Today
      <4>3. \A d \in Day : d \in Int
        BY DaysOrdered
      <4> QED
        BY <1>1, <2>1, <4>2, <4>3, EntrySound
    <3> QED
      BY <1>1, <3>1
  <2>3. Cardinality(About(journal', {e.type}, {e.ref})) = Cardinality(About(journal, {e.type}, {e.ref}))
    OBVIOUS
  <2> QED
    BY <2>1, <2>2, <2>3, EntrySound
<1>3. IsFiniteSet(journal')
      /\ \A e, f \in journal' : e.type = f.type /\ e.ref = f.ref /\ Single(e.type) => e = f
  <2> HIDE DEF EntryType, Day, IsLines, Balances, About, Today
  <2> QED
    BY DEF JournalSound
<1> HIDE DEF EntryType, Day, IsLines, Balances, About, Today
<1> QED
  BY <1>2, <1>3 DEF JournalSound

LEMMA SessionsStay ==
    ASSUME SessionBooks, Adds(EntryType \ SessionTypes), pending' = pending,
           \A s \in Session : /\ session'[s].status = session[s].status
                              /\ session'[s].float = session[s].float
                              /\ session'[s].variance = session[s].variance
    PROVE  SessionBooks'
<1>1. \A type \in SessionTypes : \A ref : Has(type, ref)' <=> Has(type, ref)
  BY DEF Adds, Has
<1>2. ASSUME NEW e \in journal', e.type \in SessionTypes PROVE OfSession(e)'
  <2>1. e \in journal
    BY <1>2 DEF Adds
  <2>2. OfSession(e)
    BY <1>2, <2>1 DEF SessionBooks, SessionTypes
  <2> QED
    BY <2>2 DEF OfSession
<1>3. ASSUME NEW s \in Session
      PROVE  /\ session'[s].status = "none" => session'[s].float = 0
             /\ session'[s].status # "closed" => session'[s].variance = 0
             /\ session'[s].float # 0 =>
                   Has("cash_session_open", s)' \/ <<"cash_session_open", s>> \in pending'
             /\ session'[s].variance # 0 =>
                   Has("cash_session_close", s)' \/ <<"cash_session_close", s>> \in pending'
             /\ <<"cash_session_open", s>> \in pending' => session'[s].float # 0
             /\ <<"cash_session_close", s>> \in pending' => session'[s].variance # 0
  BY <1>1 DEF SessionBooks, SessionTypes
<1> QED
  BY <1>2, <1>3 DEF SessionBooks, SessionTypes

LEMMA SalesStay ==
    ASSUME SaleBooks, Adds(EntryType \ SaleTypes), sale' = sale, crossed' = crossed, DocsStay
    PROVE  SaleBooks'
<1>1. \A type \in SaleTypes : \A ref : Has(type, ref)' <=> Has(type, ref)
  BY DEF Adds, Has
<1>2. ASSUME NEW e \in journal', e.type \in SaleTypes PROVE OfSale(e)'
  <2>1. e \in journal
    BY <1>2 DEF Adds
  <2>2. OfSale(e)
    BY <1>2, <2>1 DEF SaleBooks, SaleTypes
  <2> QED
    BY <1>1, <2>2 DEF OfSale, SaleTypes
<1>3. ASSUME NEW t \in Sale
      PROVE  SaleShape(sale[t])' /\ (sale'[t].status = "completed" => Has("transaction", t)')
  <2>1. SaleShape(sale[t]) /\ (sale[t].status = "completed" => Has("transaction", t))
    BY DEF SaleBooks
  <2>2. SaleShape(sale[t])'
    BY <2>1 DEF SaleShape, DocsStay
  <2> QED
    BY <1>1, <2>1, <2>2 DEF SaleTypes
<1>4. ASSUME NEW t \in Sale
      PROVE  /\ t \in crossed' => /\ sale'[t].status \in {"completed", "voided"}
                                 /\ sale'[t].basket.method = "mpesa"
             /\ t \notin crossed' => \A e, f \in Originals(t)' : e = f
  <2>1. Originals(t)' = Originals(t)
    BY DEF Originals, About, Adds, SaleTypes
  <2> QED
    BY <2>1 DEF SaleBooks
<1> QED
  BY <1>2, <1>3, <1>4 DEF SaleBooks, SaleTypes

LEMMA PaymentsStay ==
    ASSUME PaymentBooks, Adds(EntryType \ {"customer_payment"}), payment' = payment
    PROVE  PaymentBooks'
<1>1. \A ref : Has("customer_payment", ref)' <=> Has("customer_payment", ref)
  BY DEF Adds, Has
<1>2. ASSUME NEW e \in journal', e.type = "customer_payment" PROVE OfPayment(e)'
  <2>1. e \in journal
    BY <1>2 DEF Adds
  <2>2. OfPayment(e)
    BY <1>2, <2>1 DEF PaymentBooks
  <2> QED
    BY <2>2 DEF OfPayment
<1> QED
  BY <1>1, <1>2 DEF PaymentBooks

LEMMA VouchersStay ==
    ASSUME VoucherBooks, Adds(EntryType \ VoucherTypes), voucher' = voucher, raced \subseteq raced'
    PROVE  VoucherBooks'
<1>1. \A type \in VoucherTypes : \A ref : Has(type, ref)' <=> Has(type, ref)
  BY DEF Adds, Has
<1>2. ASSUME NEW e \in journal', e.type \in VoucherTypes PROVE e \in journal /\ OfVoucher(e)'
  <2>1. e \in journal
    BY <1>2 DEF Adds
  <2>2. OfVoucher(e)
    BY <1>2, <2>1 DEF VoucherBooks, VoucherTypes
  <2> QED
    BY <2>1, <2>2 DEF OfVoucher
<1>3. ASSUME NEW v \in Voucher, v \notin raced', NEW e \in Reversals(v)', NEW f \in Reversals(v)'
      PROVE  e = f
  <2>1. e \in Reversals(v) /\ f \in Reversals(v)
    BY <1>2 DEF Reversals, About, VoucherTypes
  <2> QED
    BY <1>3, <2>1 DEF VoucherBooks
<1>4. ASSUME NEW v \in Voucher
      PROVE  /\ voucher'[v].status = "none" => voucher'[v] = NoVoucher
             /\ voucher'[v].status # "none" =>
                   voucher'[v].account \in Expense /\ Has("expense_voucher", v)'
             /\ voucher'[v].status = "void" => Has("expense_void", v)'
  BY <1>1 DEF VoucherBooks, VoucherTypes
<1> QED
  BY <1>2, <1>3, <1>4 DEF VoucherBooks, VoucherTypes

LEMMA TillsStay ==
    ASSUME TillsTell, session' = session, sale' = sale, raced \subseteq raced', late \subseteq late'
    PROVE  TillsTell'
<1>1. \A s \in Session : Tendered(sale, s)' = Tendered(sale, s)
  BY DEF Tendered, CompletedIn, SumOver
<1>2. OpenSessions' = OpenSessions
  BY DEF OpenSessions
<1> HIDE DEF Tendered, OpenSessions
<1> QED
  BY <1>1, <1>2 DEF TillsTell

LEMMA CustomersStay ==
    ASSUME CustomersTell, customer' = customer, payment' = payment, sale' = sale,
           waived' = waived, edited \subseteq edited'
    PROVE  CustomersTell'
<1>1. \A c, m : Charged(sale, c, m)' = Charged(sale, c, m) /\ PaidBy(payment, c)' = PaidBy(payment, c)
  BY DEF Charged, PaidBy, CompletedIn, SumOver
<1> QED
  BY <1>1 DEF CustomersTell

\* Closed periods stay closed.
PeriodsStay ==
    \A q \in Period : period[q].status \notin {"none", "open"} => period'[q].status \notin {"none", "open"}

LEMMA VoidsStay ==
    ASSUME VoidsTell, sale' = sale, crossed \subseteq crossed', Adds(EntryType \ {"transaction"}),
           PeriodsStay
    PROVE  VoidsTell'
<1>1. Unreversed' \subseteq Unreversed
  BY DEF Unreversed, Originals, About, Adds
<1> QED
  BY <1>1 DEF VoidsTell, PeriodsStay

LEMMA HiddenStays ==
    ASSUME HiddenTell, inactive' = inactive, raced \subseteq raced', DocsStay,
           \/ journal' = journal
           \/ \E n : /\ journal' = journal \cup {n}
                     /\ \A a \in DOMAIN n.lines \cap inactive :
                           \/ a \in Touched(journal)
                           \/ \E v \in Voucher : /\ voucher'[v].status # "none"
                                                 /\ voucher'[v].account = a
    PROVE  HiddenTell'
<1>1. ASSUME NEW a \in inactive', a \in Touched(journal)'
      PROVE  \/ a \in raced'
             \/ \E v \in Voucher : voucher'[v].status # "none" /\ voucher'[v].account = a
  <2>1. CASE a \in Touched(journal)
    BY <1>1, <2>1 DEF HiddenTell, DocsStay
  <2>2. CASE a \notin Touched(journal)
    BY <1>1, <2>2 DEF Touched
  <2> QED
    BY <2>1, <2>2
<1> QED
  BY <1>1 DEF HiddenTell

\* A sale other than by M-PESA gets no entry later.
SettledStay ==
    \A t \in Sale : sale[t].status # "none" /\ sale[t].basket.method # "mpesa" =>
        Originals(t)' = Originals(t)

LEMMA SettledStays ==
    ASSUME NEW t, sale[t].status = "none" \/ sale[t].basket.method = "mpesa",
           journal' = journal \/ \E n : n.ref = t /\ journal' = journal \cup {n}
    PROVE  SettledStay
  BY DEF SettledStay, Originals, About

LEMMA HandlersStay ==
    ASSUME HandlersKnow, JournalSound', DocsStay, journal \subseteq journal',
           Adds(EntryType \ {"transaction"}) \/ SettledStay,
           handler' = handler \/ \E h \in Handler : handler' = [handler EXCEPT ![h] = Idle]
    PROVE  HandlersKnow'
<1>1. \A v : \A n \in Nat : n <= Cardinality(Reversals(v)) => n <= Cardinality(Reversals(v)')
  <2> TAKE v
  <2>1. Reversals(v) \subseteq Reversals(v)' /\ Reversals(v)' \subseteq journal'
    BY DEF Reversals, About
  <2>2. IsFiniteSet(Reversals(v)') /\ IsFiniteSet(Reversals(v))
    BY <2>1, FS_Subset DEF JournalSound
  <2>3. PICK j, k : j = Cardinality(Reversals(v)) /\ k = Cardinality(Reversals(v)')
    OBVIOUS
  <2>4. j \in Nat /\ k \in Nat /\ j <= k
    BY <2>1, <2>2, <2>3, FS_Subset, FS_CardinalityType
  <2> QED
    BY <2>3, <2>4
<1>2. DOMAIN handler' = Handler
  BY DEF HandlersKnow
<1>3. \A h \in Handler : handler'[h] = handler[h] \/ handler'[h] = Idle
  BY DEF HandlersKnow
<1>4. ASSUME NEW row, Knows(row) PROVE Knows(row)'
  <2>1. row.op = "unspend" => row.seen <= Cardinality(Reversals(row.on)')
    BY <1>1, <1>4 DEF Knows
  <2>2. Has("transaction", row.on) => Has("transaction", row.on)'
    BY DEF Has
  <2>3. row.op = "unsell" /\ sale[row.on].basket.method # "mpesa" =>
           Originals(row.on)' = Originals(row.on)
    <3>1. SettledStay
      BY DEF SettledStay, Adds, Originals, About
    <3> HIDE DEF Reversals, AccountCode, System, Has, Originals
    <3> QED
      BY <1>4, <3>1 DEF SettledStay, Knows
  <2>4. row.op = "unsell" /\ sale[row.on].basket.method # "mpesa" =>
           row.seen = Cardinality(Originals(row.on)')
    BY <1>4, <2>3 DEF Knows
  <2> HIDE DEF Reversals, AccountCode, System, Has, Originals
  <2> QED
    BY <1>4, <2>1, <2>2, <2>4 DEF Knows, DocsStay
<1>5. ASSUME NEW h \in Handler PROVE Knows(handler[h])'
  <2>1. PICK row : row = handler'[h]
    OBVIOUS
  <2>2. Knows(row)
    <3>1. CASE row = Idle
      BY <3>1 DEF Idle, Knows
    <3>2. CASE row = handler[h]
      BY <3>2 DEF HandlersKnow
    <3> QED
      BY <1>3, <2>1, <3>1, <3>2
  <2>3. Knows(row)'
    BY <1>4, <2>2
  <2>4. Reversals(handler[h].on)' = Reversals(row.on)'
    BY <2>1 DEF Reversals, About
  <2>5. Has("transaction", handler[h].on)' = Has("transaction", row.on)'
        /\ Originals(handler[h].on)' = Originals(row.on)'
    BY <2>1 DEF Has, Originals, About
  <2> HIDE DEF Reversals, AccountCode, System, Has, Originals
  <2> QED
    BY <2>1, <2>3, <2>4, <2>5 DEF Knows
<1> QED
  BY <1>2, <1>5 DEF HandlersKnow

-----------------------------------------------------------------------------
(* Sums over sales and payments when one of them changes.                  *)

\* The sums of two functions on sets that differ in one index.
LEMMA SumMoves ==
    ASSUME NEW T, IsFiniteSet(T), NEW U, NEW y, U \ {y} = T \ {y}, NEW f, NEW g,
           \A x \in T : f[x] \in Int, \A x \in U : g[x] \in Int,
           \A x \in T \ {y} : g[x] = f[x],
           NEW a \in Int, NEW b \in Int,
           a = IF y \in T THEN f[y] ELSE 0, b = IF y \in U THEN g[y] ELSE 0
    PROVE  /\ SumFunctionOnSet(g, U) = SumFunctionOnSet(f, T) + b - a
           /\ SumFunctionOnSet(f, T) \in Int
<1>1. PICK R : R = T \ {y}
  OBVIOUS
<1>2. IsFiniteSet(R) /\ IsFiniteSet(R \cup {y}) /\ IsFiniteSet(U)
  <2>1. R \in SUBSET T /\ U \in SUBSET (R \cup {y})
    BY <1>1
  <2>2. IsFiniteSet(R)
    BY <2>1, FS_Subset
  <2>3. IsFiniteSet(R \cup {y})
    BY <2>2, FS_AddElement
  <2> QED
    BY <2>1, <2>2, <2>3, FS_Subset
<1>3. SumFunctionOnSet(f, R) = SumFunctionOnSet(g, R)
  BY <1>1, <1>2, SumSame
<1>4. SumFunctionOnSet(f, T) = SumFunctionOnSet(f, R) + a /\ SumFunctionOnSet(f, R) \in Int
  <2>1. SumFunctionOnSet(f, R) \in Int
    BY <1>1, <1>2, SumInt
  <2>2. CASE y \in T
    <3>1. SumFunctionOnSet(f, T) = f[y] + SumFunctionOnSet(f, T \ {y})
      BY <2>2, SumSplits
    <3> QED
      BY <1>1, <2>1, <2>2, <3>1
  <2>3. CASE y \notin T
    <3>1. R = T
      BY <1>1, <2>3
    <3> QED
      BY <2>1, <2>3, <3>1
  <2> QED
    BY <2>2, <2>3
<1>5. SumFunctionOnSet(g, U) = SumFunctionOnSet(g, R) + b
  <2>1. SumFunctionOnSet(g, R) \in Int
    BY <1>3, <1>4
  <2>2. CASE y \in U
    <3>1. SumFunctionOnSet(g, U) = g[y] + SumFunctionOnSet(g, U \ {y})
      BY <1>2, <2>2, SumSplits
    <3>2. U \ {y} = R
      BY <1>1
    <3>3. SumFunctionOnSet(g, U) = g[y] + SumFunctionOnSet(g, R)
      BY <3>1, <3>2
    <3> QED
      BY <2>1, <2>2, <3>3
  <2>3. CASE y \notin U
    <3>1. R = U
      BY <1>1, <2>3
    <3> QED
      BY <2>1, <2>3, <3>1
  <2> QED
    BY <2>2, <2>3
<1> QED
  BY <1>3, <1>4, <1>5

TillShare(row, s) ==
    IF row.status = "completed" /\ row.session = s THEN row.basket.total - row.basket.change ELSE 0

LEMMA TenderedMoves ==
    ASSUME NEW sl \in [Sale -> SaleRow], NEW sm \in [Sale -> SaleRow], NEW t \in Sale,
           \A u \in Sale \ {t} : sm[u] = sl[u], NEW s
    PROVE  /\ Tendered(sm, s) = Tendered(sl, s) + TillShare(sm[t], s) - TillShare(sl[t], s)
           /\ Tendered(sl, s) \in Int
<1> DEFINE T == {u \in CompletedIn(sl, Sale) : sl[u].session = s}
           U == {u \in CompletedIn(sm, Sale) : sm[u].session = s}
           f == [u \in T |-> sl[u].basket.total - sl[u].basket.change]
           g == [u \in U |-> sm[u].basket.total - sm[u].basket.change]
<1>1. IsFiniteSet(T)
  BY CashDeskAssumption, FS_Subset DEF CompletedIn
<1>2. U \ {t} = T \ {t}
  BY DEF CompletedIn
<1>3. \A x \in Sale : /\ sl[x].basket.total - sl[x].basket.change \in Int
                      /\ sm[x].basket.total - sm[x].basket.change \in Int
  BY DEF SaleRow, BasketRow
<1>4. (\A x \in T : f[x] \in Int) /\ (\A x \in U : g[x] \in Int) /\ (\A x \in T \ {t} : g[x] = f[x])
  BY <1>2, <1>3 DEF CompletedIn
<1>5. /\ TillShare(sl[t], s) = IF t \in T THEN f[t] ELSE 0
      /\ TillShare(sm[t], s) = IF t \in U THEN g[t] ELSE 0
  BY DEF TillShare, CompletedIn
<1>6. TillShare(sl[t], s) \in Int /\ TillShare(sm[t], s) \in Int
  BY <1>3 DEF TillShare
<1>7. Tendered(sl, s) = SumFunctionOnSet(f, T) /\ Tendered(sm, s) = SumFunctionOnSet(g, U)
  BY DEF Tendered, SumOver
<1> HIDE DEF T, U, f, g, TillShare
<1>8. /\ SumFunctionOnSet(g, U) = SumFunctionOnSet(f, T) + TillShare(sm[t], s) - TillShare(sl[t], s)
      /\ SumFunctionOnSet(f, T) \in Int
  BY <1>1, <1>2, <1>4, <1>5, <1>6, SumMoves
<1> QED
  BY <1>7, <1>8

ChargedShare(row, c, m) ==
    IF row.status = "completed" /\ row.customer = c /\ row.basket.method = m
    THEN row.basket.total ELSE 0

LEMMA ChargedMoves ==
    ASSUME NEW sl \in [Sale -> SaleRow], NEW sm \in [Sale -> SaleRow], NEW t \in Sale,
           \A u \in Sale \ {t} : sm[u] = sl[u], NEW c, NEW m
    PROVE  /\ Charged(sm, c, m) = Charged(sl, c, m) + ChargedShare(sm[t], c, m) - ChargedShare(sl[t], c, m)
           /\ Charged(sl, c, m) \in Int
<1> DEFINE T == {u \in CompletedIn(sl, Sale) : sl[u].customer = c /\ sl[u].basket.method = m}
           U == {u \in CompletedIn(sm, Sale) : sm[u].customer = c /\ sm[u].basket.method = m}
           f == [u \in T |-> sl[u].basket.total]
           g == [u \in U |-> sm[u].basket.total]
<1>1. IsFiniteSet(T)
  BY CashDeskAssumption, FS_Subset DEF CompletedIn
<1>2. U \ {t} = T \ {t}
  BY DEF CompletedIn
<1>3. \A x \in Sale : sl[x].basket.total \in Int /\ sm[x].basket.total \in Int
  BY DEF SaleRow, BasketRow
<1>4. (\A x \in T : f[x] \in Int) /\ (\A x \in U : g[x] \in Int) /\ (\A x \in T \ {t} : g[x] = f[x])
  BY <1>2, <1>3 DEF CompletedIn
<1>5. /\ ChargedShare(sl[t], c, m) = IF t \in T THEN f[t] ELSE 0
      /\ ChargedShare(sm[t], c, m) = IF t \in U THEN g[t] ELSE 0
  BY DEF ChargedShare, CompletedIn
<1>6. ChargedShare(sl[t], c, m) \in Int /\ ChargedShare(sm[t], c, m) \in Int
  BY <1>3 DEF ChargedShare
<1>7. Charged(sl, c, m) = SumFunctionOnSet(f, T) /\ Charged(sm, c, m) = SumFunctionOnSet(g, U)
  BY DEF Charged, SumOver
<1> HIDE DEF T, U, f, g, ChargedShare
<1>8. /\ SumFunctionOnSet(g, U)
            = SumFunctionOnSet(f, T) + ChargedShare(sm[t], c, m) - ChargedShare(sl[t], c, m)
      /\ SumFunctionOnSet(f, T) \in Int
  BY <1>1, <1>2, <1>4, <1>5, <1>6, SumMoves
<1> QED
  BY <1>7, <1>8

LEMMA PaidMoves ==
    ASSUME NEW pl \in [Payment -> PaymentRow], NEW pm \in [Payment -> PaymentRow], NEW p \in Payment,
           \A u \in Payment \ {p} : pm[u] = pl[u], NEW c, pl[p].customer # c
    PROVE  /\ PaidBy(pm, c) = PaidBy(pl, c) + (IF pm[p].customer = c THEN pm[p].amount ELSE 0)
           /\ PaidBy(pl, c) \in Int
<1> DEFINE T == {u \in Payment : pl[u].customer = c}
           U == {u \in Payment : pm[u].customer = c}
           f == [u \in T |-> pl[u].amount]
           g == [u \in U |-> pm[u].amount]
<1>1. IsFiniteSet(T)
  BY CashDeskAssumption, FS_Subset
<1>2. U \ {p} = T \ {p}
  OBVIOUS
<1>3. \A x \in Payment : pl[x].amount \in Int /\ pm[x].amount \in Int
  BY DEF PaymentRow
<1>4. (\A x \in T : f[x] \in Int) /\ (\A x \in U : g[x] \in Int) /\ (\A x \in T \ {p} : g[x] = f[x])
  BY <1>2, <1>3
<1>5. PICK b : b = IF p \in U THEN g[p] ELSE 0
  OBVIOUS
<1>6. b \in Int /\ b = (IF pm[p].customer = c THEN pm[p].amount ELSE 0) /\ p \notin T
  BY <1>3, <1>5
<1>7. PaidBy(pl, c) = SumFunctionOnSet(f, T) /\ PaidBy(pm, c) = SumFunctionOnSet(g, U)
  BY DEF PaidBy, SumOver
<1> HIDE DEF T, U, f, g
<1>8. 0 = IF p \in T THEN f[p] ELSE 0
  BY <1>6
<1>9. SumFunctionOnSet(g, U) = SumFunctionOnSet(f, T) + b - 0 /\ SumFunctionOnSet(f, T) \in Int
  BY <1>1, <1>2, <1>4, <1>5, <1>6, <1>8, SumMoves
<1> QED
  BY <1>6, <1>7, <1>9

LEMMA PaidInt ==
    ASSUME TypeOK, NEW c
    PROVE  PaidBy(payment, c) \in Int
<1>1. PICK T, f : /\ T = {p \in Payment : payment[p].customer = c}
                  /\ f = [p \in T |-> payment[p].amount]
  OBVIOUS
<1>2. IsFiniteSet(T) /\ \A p \in T : f[p] \in Int
  BY <1>1, CashDeskAssumption, FS_Subset DEF TypeOK, PaymentRow
<1>3. PaidBy(payment, c) = SumFunctionOnSet(f, T)
  BY <1>1 DEF PaidBy, SumOver
<1> QED
  BY <1>2, <1>3, SumInt

-----------------------------------------------------------------------------
(* Steps that write no document: readings, periods, the clock.             *)

LEMMA QuietKeeps ==
    ASSUME DeskInv, UNCHANGED <<docs, journal, inactive, pending, history>>,
           TypeOK', HandlersKnow', time <= time', PeriodsStay
    PROVE  DeskInv'
<1> USE DEF docs, history
<1>1. DocsStay /\ \A types : Adds(types)
  BY DEF DocsStay, Adds
<1>2. JournalSound'
  BY JournalStays DEF DeskInv
<1>3. SessionBooks' /\ SaleBooks' /\ PaymentBooks' /\ VoucherBooks'
  BY <1>1, SessionsStay, SalesStay, PaymentsStay, VouchersStay DEF DeskInv
<1>4. TillsTell' /\ CustomersTell'
  BY TillsStay, CustomersStay DEF DeskInv
<1>5. VoidsTell' /\ HiddenTell'
  BY <1>1, VoidsStay, HiddenStays DEF DeskInv
<1> QED
  BY <1>2, <1>3, <1>4, <1>5 DEF DeskInv

\* A request that has read something knows it.
LEMMA ReadingKeeps ==
    ASSUME DeskInv, NEW h \in Handler, NEW op, NEW on, NEW seen,
           handler' = [handler EXCEPT ![h] = [op |-> op, on |-> on, seen |-> seen]],
           UNCHANGED <<docs, ledger, history, time>>,
           Knows([op |-> op, on |-> on, seen |-> seen])
    PROVE  DeskInv'
<1> USE DEF docs, ledger, history
<1>1. TypeOK' /\ PeriodsStay
  BY DEF DeskInv, TypeOK, PeriodsStay
<1>2. \A row : Knows(row) => Knows(row)'
  BY DEF Knows, Reversals, Has, Originals
<1>3. handler' = [handler EXCEPT ![h] = [op |-> op, on |-> on, seen |-> seen]]
  OBVIOUS
<1>4. ASSUME NEW k \in Handler PROVE Knows(handler[k])'
  <2>1. PICK row : row = handler'[k]
    OBVIOUS
  <2>2. Knows(row)
    <3>1. row = handler[k] \/ row = [op |-> op, on |-> on, seen |-> seen]
      BY <1>3, <2>1 DEF DeskInv, HandlersKnow
    <3> QED
      BY <3>1 DEF DeskInv, HandlersKnow
  <2>3. Reversals(handler[k].on)' = Reversals(row.on)'
        /\ Has("transaction", handler[k].on)' = Has("transaction", row.on)'
        /\ Originals(handler[k].on)' = Originals(row.on)'
    BY <2>1 DEF Reversals, About, Has, Originals
  <2> HIDE DEF Reversals, AccountCode, System, Has, Originals
  <2> QED
    BY <1>2, <2>1, <2>2, <2>3 DEF Knows
<1>5. HandlersKnow'
  BY <1>3, <1>4 DEF DeskInv, HandlersKnow
<1>6. time <= time'
  BY DEF DeskInv, TypeOK
<1> QED
  BY <1>1, <1>5, <1>6, QuietKeeps

LEMMA ReadingsKeep ==
    ASSUME DeskInv, NEW h \in Handler,
           \/ OpenRead(h) \/ CreatePeriodRead(h)
           \/ \E s \in Session : CashSaleRead(h, s)
           \/ \E t \in Sale : VoidRead(h, t) \/ FailRead(h, t) \/ ConfirmRead(h, t)
           \/ VoidLook(h) \/ ConfirmLook(h)
           \/ \E c \in Customer : AdjustRead(h, c)
           \/ \E v \in Voucher : VoidVoucherRead(h, v)
           \/ \E a \in AccountCode : DeactivateRead(h, a)
    PROVE  DeskInv'
<1>1. ASSUME OpenRead(h) PROVE DeskInv'
  BY <1>1, ReadingKeeps DEF OpenRead, Start, Knows
<1>2. ASSUME CreatePeriodRead(h) PROVE DeskInv'
  BY <1>2, ReadingKeeps DEF CreatePeriodRead, Start, Knows
<1>3. ASSUME NEW s \in Session, CashSaleRead(h, s) PROVE DeskInv'
  <2>1. session[s].expected \in Int /\ session[s].status # "none"
    BY <1>3 DEF DeskInv, TypeOK, SessionRow, CashSaleRead
  <2>2. Knows([op |-> "sell", on |-> s, seen |-> session[s].expected])
    BY <2>1 DEF Knows
  <2> QED
    BY <1>3, <2>2, ReadingKeeps DEF CashSaleRead, Start
<1>4. ASSUME NEW t \in Sale, VoidRead(h, t) PROVE DeskInv'
  <2>1. Knows([op |-> "void", on |-> t, seen |-> 0])
    BY <1>4 DEF Knows, VoidRead
  <2> QED
    BY <1>4, <2>1, ReadingKeeps DEF VoidRead, Start
<1>5. ASSUME NEW c \in Customer, AdjustRead(h, c) PROVE DeskInv'
  <2>1. customer[c].balance \in Int
    BY DEF DeskInv, TypeOK, CustomerRow
  <2>2. Knows([op |-> "adjust", on |-> c, seen |-> customer[c].balance])
    BY <2>1 DEF Knows
  <2> QED
    BY <1>5, <2>2, ReadingKeeps DEF AdjustRead, Start
<1>6. ASSUME NEW v \in Voucher, VoidVoucherRead(h, v) PROVE DeskInv'
  <2>1. PICK n : n = Cardinality(Reversals(v))
    OBVIOUS
  <2>2. n \in Nat
    <3>1. Reversals(v) \in SUBSET journal
      BY DEF Reversals, About
    <3> QED
      BY <2>1, <3>1, FS_Subset, FS_CardinalityType DEF DeskInv, JournalSound
  <2>3. Knows([op |-> "unspend", on |-> v, seen |-> n])
    <3> HIDE DEF Reversals
    <3> QED
      BY <1>6, <2>1, <2>2 DEF Knows, VoidVoucherRead
  <2> QED
    BY <1>6, <2>1, <2>3, ReadingKeeps DEF VoidVoucherRead, Start
<1>7. ASSUME NEW a \in AccountCode, DeactivateRead(h, a) PROVE DeskInv'
  <2>1. Knows([op |-> "deactivate", on |-> a, seen |-> 0])
    BY <1>7 DEF Knows, DeactivateRead
  <2> QED
    BY <1>7, <2>1, ReadingKeeps DEF DeactivateRead, Start
<1>8. ASSUME NEW t \in Sale, FailRead(h, t) \/ ConfirmRead(h, t) PROVE DeskInv'
  <2>1. sale[t].status = "pending" /\ sale[t].basket.method = "mpesa"
    BY <1>8 DEF FailRead, ConfirmRead, DeskInv, SaleBooks, SaleShape
  <2>2. \A op \in {"fail", "confirm"} : Knows([op |-> op, on |-> t, seen |-> 0])
    BY <2>1 DEF Knows
  <2>3. ASSUME FailRead(h, t) PROVE DeskInv'
    BY <2>2, <2>3, ReadingKeeps DEF FailRead, Start
  <2>4. ASSUME ConfirmRead(h, t) PROVE DeskInv'
    BY <2>2, <2>4, ReadingKeeps DEF ConfirmRead, Start
  <2> QED
    BY <1>8, <2>3, <2>4
<1>9. ASSUME VoidLook(h) \/ ConfirmLook(h) PROVE DeskInv'
  <2>1. PICK t, n : t = handler[h].on /\ n = Cardinality(Originals(t))
    OBVIOUS
  <2>2. n = 0 \/ Has("transaction", t)
    <3>1. ~Has("transaction", t) => Originals(t) = {}
      BY DEF Originals, About, Has
    <3> QED
      BY <2>1, <3>1, FS_EmptySet
  <2>3. Knows(handler[h])
    BY DEF DeskInv, HandlersKnow
  <2>4. ASSUME VoidLook(h) PROVE DeskInv'
    <3>1. Knows([op |-> "unsell", on |-> t, seen |-> n])
      <4> HIDE DEF Has, Reversals, Originals
      <4> QED
        BY <2>1, <2>2, <2>3, <2>4 DEF VoidLook, Knows
    <3>2. handler' = [handler EXCEPT ![h] = [op |-> "unsell", on |-> t, seen |-> n]]
      BY <2>1, <2>4 DEF VoidLook, Looked
    <3> QED
      BY <2>4, <3>1, <3>2, ReadingKeeps DEF VoidLook
  <2>5. ASSUME ConfirmLook(h) PROVE DeskInv'
    <3>1. Knows([op |-> "settle", on |-> t, seen |-> n])
      <4> HIDE DEF Has, Reversals
      <4> QED
        BY <2>1, <2>2, <2>3, <2>5 DEF ConfirmLook, Knows
    <3>2. handler' = [handler EXCEPT ![h] = [op |-> "settle", on |-> t, seen |-> n]]
      BY <2>1, <2>5 DEF ConfirmLook, Looked
    <3> QED
      BY <2>5, <3>1, <3>2, ReadingKeeps DEF ConfirmLook
  <2> QED
    BY <1>9, <2>4, <2>5
<1> QED
  BY <1>1, <1>2, <1>3, <1>4, <1>5, <1>6, <1>7, <1>8, <1>9

\* A request that ends, with nothing else written but periods.
LEMMA PeriodsKeep ==
    ASSUME DeskInv,
           \/ \E h \in Handler : Refuse(h) \/ \E q \in Period : CreatePeriodCommit(h, q)
           \/ \E q \in Period : ClosePeriod(q) \/ LockPeriod(q)
           \/ Tick \/ UNCHANGED vars
    PROVE  DeskInv'
<1> USE DEF docs, ledger, history
<1>1. /\ UNCHANGED <<docs, journal, inactive, pending, history>>
      /\ handler' = handler \/ \E h \in Handler : handler' = [handler EXCEPT ![h] = Idle]
  BY DEF Refuse, CreatePeriodCommit, ClosePeriod, LockPeriod, Tick, vars, Finish
<1>2. time' \in 0 .. MaxTime /\ time <= time'
  BY CashDeskAssumption
     DEF DeskInv, TypeOK, Refuse, CreatePeriodCommit, ClosePeriod, LockPeriod, Tick, vars, Finish
<1>3. period' \in [Period -> PeriodRow] /\ PeriodsStay
  <2>1. ASSUME period' = period PROVE period' \in [Period -> PeriodRow] /\ PeriodsStay
    BY <2>1 DEF DeskInv, TypeOK, PeriodsStay
  <2>2. ASSUME NEW h \in Handler, NEW q \in Period, CreatePeriodCommit(h, q)
        PROVE  period' \in [Period -> PeriodRow] /\ PeriodsStay
    <3>1. PICK day \in Day : period' = [period EXCEPT ![q] = [status |-> "open", last |-> day]]
      BY <2>2 DEF CreatePeriodCommit
    <3>2. [status |-> "open", last |-> day] \in PeriodRow
      BY DEF PeriodRow
    <3> QED
      BY <2>2, <3>1, <3>2 DEF DeskInv, TypeOK, PeriodsStay, CreatePeriodCommit
  <2>3. ASSUME NEW q \in Period, NEW st \in {"closed", "locked"},
               period' = [period EXCEPT ![q].status = st]
        PROVE  period' \in [Period -> PeriodRow] /\ PeriodsStay
    <3>1. [period[q] EXCEPT !.status = st] \in PeriodRow
      BY <2>3 DEF DeskInv, TypeOK, PeriodRow
    <3>2. period' = [period EXCEPT ![q] = [period[q] EXCEPT !.status = st]]
      BY <2>3 DEF DeskInv, TypeOK
    <3>3. [period[q] EXCEPT !.status = st].status = st
      BY DEF DeskInv, TypeOK, PeriodRow
    <3> QED
      BY <3>1, <3>2, <3>3 DEF DeskInv, TypeOK, PeriodsStay
  <2> QED
    BY <2>1, <2>2, <2>3 DEF Refuse, ClosePeriod, LockPeriod, Tick, vars
<1>4. TypeOK'
  BY <1>1, <1>2, <1>3 DEF DeskInv, TypeOK
<1>5. HandlersKnow'
  <2>1. DocsStay /\ JournalSound' /\ Adds(EntryType \ {"transaction"})
    BY <1>1, <1>2, <1>4, JournalStays DEF DeskInv, DocsStay, Adds
  <2> QED
    BY <1>1, <2>1, HandlersStay DEF DeskInv
<1> QED
  BY <1>1, <1>2, <1>3, <1>4, <1>5, QuietKeeps

-----------------------------------------------------------------------------
(* Opening and closing a session.                                          *)

LEMMA TodayIsDay == ASSUME TypeOK PROVE Today \in Day /\ Today \in Int
<1>1. Today \in Day
  BY DaysOrdered DEF TypeOK, Today
<1> QED
  BY <1>1, DaysOrdered

\* Either the entry is posted or it is noted as due.
LEMMA SessionPosted ==
    ASSUME DeskInv, TypeOK', time' = time, NEW type \in SessionTypes, NEW s \in Session, NEW lines,
           IsLines(lines), ~Has(type, s), PostOrNote(type, s, Today, lines)
    PROVE  /\ JournalSound'
           /\ \/ journal' = journal /\ pending' = pending \cup {<<type, s>>}
              \/ /\ pending' = pending
                 /\ \E n : /\ n \notin journal /\ journal' = journal \cup {n}
                           /\ n.type = type /\ n.ref = s /\ n.lines = lines
                           /\ DOMAIN n.lines \cap inactive = {}
<1>1. Today \in Day /\ Today <= Today /\ time <= time' /\ type \in EntryType
  BY TodayIsDay DEF DeskInv, TypeOK, SessionTypes, EntryType
<1>2. CASE journal' = journal /\ pending' = pending \cup {<<type, s>>}
  BY <1>1, <1>2, JournalStays DEF DeskInv
<1>3. CASE Postable(DOMAIN lines, Today) /\ Post(type, s, Today, lines) /\ UNCHANGED pending
  <2>1. /\ JournalSound'
        /\ \E n : /\ n \notin journal /\ journal' = journal \cup {n}
                  /\ n.type = type /\ n.ref = s /\ n.day = Today /\ n.lines = lines
    BY <1>1, <1>3, Posted DEF DeskInv
  <2> QED
    BY <1>3, <2>1 DEF Postable
<1> QED
  BY <1>2, <1>3 DEF PostOrNote

LEMMA OpenKeeps ==
    ASSUME DeskInv, NEW h \in Handler, NEW s \in Session, OpenCommit(h, s)
    PROVE  DeskInv'
<1> USE DEF docs, ledger, history
<1>1. PICK f \in OpeningFloat :
          /\ session' = [session EXCEPT ![s] = [NoSession EXCEPT !.status = "open", !.float = f,
                                                                 !.expected = f]]
          /\ IF f = 0 THEN UNCHANGED <<journal, pending>>
             ELSE PostOrNote("cash_session_open", s, Today, FloatLines(f))
  BY DEF OpenCommit
<1>2. PICK row : row = [status |-> "open", float |-> f, expected |-> f, counted |-> 0, variance |-> 0]
  OBVIOUS
<1>3. f \in Nat /\ row \in SessionRow
  BY <1>2, CashDeskAssumption DEF SessionRow
<1>4. session' = [session EXCEPT ![s] = row]
  <2>1. row = [NoSession EXCEPT !.status = "open", !.float = f, !.expected = f]
    <3>1. PICK a : a = [NoSession EXCEPT !.status = "open"]
      OBVIOUS
    <3>2. a = [status |-> "open", float |-> 0, expected |-> 0, counted |-> 0, variance |-> 0]
      BY <3>1 DEF NoSession
    <3>3. PICK b : b = [a EXCEPT !.float = f]
      OBVIOUS
    <3>4. b = [status |-> "open", float |-> f, expected |-> 0, counted |-> 0, variance |-> 0]
      BY <3>2, <3>3
    <3>5. row = [b EXCEPT !.expected = f]
      BY <1>2, <3>4
    <3>6. [NoSession EXCEPT !.status = "open", !.float = f, !.expected = f] = [b EXCEPT !.expected = f]
      BY <3>1, <3>3
    <3> QED
      BY <3>5, <3>6
  <2> QED
    BY <1>1, <2>1
<1>5. /\ UNCHANGED <<sale, customer, payment, voucher, inactive, period, crossed, late, edited,
                     waived, time>>
      /\ handler' = [handler EXCEPT ![h] = Idle]
      /\ raced' = raced \cup (IF OpenSessions = {} THEN {} ELSE {"open"})
      /\ session[s].status = "none"
  BY DEF OpenCommit, Finish
<1>6. TypeOK'
  BY <1>3, <1>4, <1>5 DEF DeskInv, TypeOK
<1>7. /\ \A u \in Session \ {s} : session'[u] = session[u]
      /\ session'[s] = row
  BY <1>4 DEF DeskInv, TypeOK
<1>8. /\ ~Has("cash_session_open", s) /\ ~Has("cash_session_close", s)
      /\ <<"cash_session_open", s>> \notin pending /\ <<"cash_session_close", s>> \notin pending
  BY <1>5 DEF DeskInv, SessionBooks, OfSession, Has
<1>9. /\ JournalSound'
      /\ \/ f = 0 /\ journal' = journal /\ pending' = pending
         \/ f # 0 /\ journal' = journal /\ pending' = pending \cup {<<"cash_session_open", s>>}
         \/ /\ f # 0 /\ pending' = pending
            /\ \E n : /\ n \notin journal /\ journal' = journal \cup {n}
                      /\ n.type = "cash_session_open" /\ n.ref = s /\ n.lines = FloatLines(f)
                      /\ DOMAIN n.lines \cap inactive = {}
  <2>1. CASE f = 0
    <3>1. time <= time'
      BY <1>5 DEF DeskInv, TypeOK
    <3> QED
      BY <1>1, <1>6, <2>1, <3>1, JournalStays DEF DeskInv
  <2>2. CASE f # 0
    <3>1. IsLines(FloatLines(f))
      BY <1>3, DocumentLines
    <3> QED
      BY <1>1, <1>5, <1>6, <1>8, <2>2, <3>1, SessionPosted DEF SessionTypes
  <2> QED
    BY <2>1, <2>2
<1>10. DocsStay /\ PeriodsStay
  BY <1>2, <1>5, <1>7 DEF DocsStay, PeriodsStay
<1>11. /\ Adds(EntryType \ SaleTypes) /\ Adds(EntryType \ {"customer_payment"})
       /\ Adds(EntryType \ VoucherTypes) /\ Adds(EntryType \ {"transaction"})
       /\ journal \subseteq journal'
  BY <1>9 DEF Adds, EntryType, SaleTypes, VoucherTypes
<1>12. SessionBooks'
  <2>1. ASSUME NEW e \in journal', e.type \in SessionTypes PROVE OfSession(e)'
    <3>1. CASE e \in journal
      <4>1. OfSession(e) /\ e.ref # s
        BY <1>8, <2>1, <3>1 DEF DeskInv, SessionBooks, SessionTypes, Has, OfSession
      <4>2. <<e.type, e.ref>> \notin pending'
        BY <1>9, <4>1 DEF OfSession
      <4> QED
        BY <1>7, <4>1, <4>2 DEF OfSession
    <3>2. CASE e \notin journal
      <4>1. /\ f # 0 /\ pending' = pending
            /\ e.type = "cash_session_open" /\ e.ref = s /\ e.lines = FloatLines(f)
        BY <1>9, <3>2
      <4> QED
        BY <1>2, <1>7, <1>8, <4>1 DEF OfSession
    <3> QED
      BY <3>1, <3>2
  <2>2. ASSUME NEW u \in Session
        PROVE  /\ session'[u].status = "none" => session'[u].float = 0
               /\ session'[u].status # "closed" => session'[u].variance = 0
               /\ session'[u].float # 0 =>
                     Has("cash_session_open", u)' \/ <<"cash_session_open", u>> \in pending'
               /\ session'[u].variance # 0 =>
                     Has("cash_session_close", u)' \/ <<"cash_session_close", u>> \in pending'
               /\ <<"cash_session_open", u>> \in pending' => session'[u].float # 0
               /\ <<"cash_session_close", u>> \in pending' => session'[u].variance # 0
    <3>1. CASE u = s
      BY <1>2, <1>7, <1>8, <1>9, <3>1 DEF Has
    <3>2. CASE u # s
      <4>1. session'[u] = session[u] /\ journal \subseteq journal' /\ pending \subseteq pending'
        BY <1>7, <1>9, <1>11, <3>2
      <4>2. \A type : <<type, u>> \in pending' => <<type, u>> \in pending
        BY <1>9, <3>2
      <4> QED
        BY <4>1, <4>2 DEF DeskInv, SessionBooks, Has
    <3> QED
      BY <3>1, <3>2
  <2> QED
    BY <2>1, <2>2 DEF SessionBooks, SessionTypes
<1>13. SaleBooks' /\ PaymentBooks' /\ VoucherBooks'
  BY <1>5, <1>10, <1>11, SalesStay, PaymentsStay, VouchersStay DEF DeskInv
<1>14. TillsTell'
  <2>1. \A u \in Session : Tendered(sale, u)' = Tendered(sale, u)
    BY <1>5 DEF Tendered, CompletedIn, SumOver
  <2>2. Tendered(sale, s) = 0
    <3>1. {t \in CompletedIn(sale, Sale) : sale[t].session = s} = {}
      BY <1>5, CashDeskAssumption DEF DeskInv, SaleBooks, SaleShape, CompletedIn
    <3> QED
      BY <3>1, SumOfNone DEF Tendered, SumOver
  <2>3. "open" \notin raced' => \A q, r \in OpenSessions' : q = r
    BY <1>5, <1>7 DEF OpenSessions
  <2>4. \A u \in Session : u \notin raced' => u \notin raced
    BY <1>5
  <2> HIDE DEF Tendered
  <2>5. \A u \in Session : u \notin raced' =>
           session'[u].expected = session'[u].float + Tendered(sale, u)
    BY <1>2, <1>3, <1>7, <2>2, <2>4 DEF DeskInv, TillsTell
  <2>6. \A u \in Session : session'[u].status = "closed" /\ u \notin raced' \cup late' =>
           session'[u].variance = session'[u].counted - (session'[u].float + Tendered(sale, u))
    BY <1>2, <1>5, <1>7, <2>4 DEF DeskInv, TillsTell
  <2> QED
    BY <2>1, <2>3, <2>5, <2>6 DEF TillsTell
<1>15. CustomersTell' /\ VoidsTell'
  BY <1>5, <1>10, <1>11, CustomersStay, VoidsStay DEF DeskInv
<1>16. HiddenTell'
  <2>1. \/ journal' = journal
        \/ \E n : journal' = journal \cup {n} /\ DOMAIN n.lines \cap inactive = {}
    BY <1>9
  <2> QED
    BY <1>5, <1>10, <2>1, HiddenStays DEF DeskInv
<1>17. HandlersKnow'
  BY <1>5, <1>9, <1>10, <1>11, HandlersStay DEF DeskInv
<1> QED
  BY <1>6, <1>9, <1>12, <1>13, <1>14, <1>15, <1>16, <1>17 DEF DeskInv

LEMMA CloseKeeps ==
    ASSUME DeskInv, NEW s \in Session, Close(s)
    PROVE  DeskInv'
<1> USE DEF docs, ledger, history
<1>1. PICK m \in Miscount :
          LET row == Counted(s, Most(0, session[s].expected + m)) IN
          /\ session' = [session EXCEPT ![s] = row]
          /\ IF row.variance = 0 THEN UNCHANGED <<journal, pending>>
             ELSE PostOrNote("cash_session_close", s, Today, VarianceLines(row.variance))
  BY DEF Close
<1>2. PICK cash : cash = Most(0, session[s].expected + m)
  OBVIOUS
<1>3. PICK row : row = Counted(s, cash)
  OBVIOUS
<1>4. /\ row \in SessionRow /\ row.status = "closed" /\ row.float = session[s].float
      /\ row.expected = session[s].expected /\ row.variance = row.counted - row.expected
  <2>1. session[s].expected \in Int /\ m \in Int /\ session[s] \in SessionRow
    BY CashDeskAssumption DEF DeskInv, TypeOK, SessionRow
  <2>2. cash \in Int
    BY <1>2, <2>1 DEF Most
  <2>3. PICK v : v = cash - session[s].expected
    OBVIOUS
  <2>4. PICK old : old = session[s]
    OBVIOUS
  <2>5. row = [old EXCEPT !.status = "closed", !.counted = cash, !.variance = v]
    BY <1>3, <2>3, <2>4 DEF Counted
  <2>6. PICK a : a = [old EXCEPT !.status = "closed"]
    OBVIOUS
  <2>7. PICK b : b = [a EXCEPT !.counted = cash]
    OBVIOUS
  <2>8. row = [b EXCEPT !.variance = v]
    BY <2>5, <2>6, <2>7
  <2>9. a \in SessionRow /\ a.status = "closed" /\ a.float = old.float /\ a.expected = old.expected
    BY <2>1, <2>4, <2>6 DEF SessionRow
  <2>10. /\ b \in SessionRow /\ b.status = "closed" /\ b.float = old.float
         /\ b.expected = old.expected /\ b.counted = cash
    BY <2>2, <2>7, <2>9 DEF SessionRow
  <2>11. v \in Int
    BY <2>1, <2>2, <2>3
  <2>12. /\ row \in SessionRow /\ row.status = "closed" /\ row.float = old.float
         /\ row.expected = old.expected /\ row.counted = cash /\ row.variance = v
    BY <2>8, <2>10, <2>11 DEF SessionRow
  <2> QED
    BY <2>3, <2>4, <2>12
<1>5. /\ session' = [session EXCEPT ![s] = row]
      /\ IF row.variance = 0 THEN UNCHANGED <<journal, pending>>
         ELSE PostOrNote("cash_session_close", s, Today, VarianceLines(row.variance))
  BY <1>1, <1>2, <1>3
<1>6. /\ UNCHANGED <<sale, customer, payment, voucher, inactive, period, handler, time, history>>
      /\ session[s].status = "open"
  BY DEF Close
<1>7. TypeOK'
  BY <1>4, <1>5, <1>6 DEF DeskInv, TypeOK
<1>8. /\ \A u \in Session \ {s} : session'[u] = session[u]
      /\ session'[s] = row
  BY <1>5 DEF DeskInv, TypeOK
<1>9. /\ ~Has("cash_session_close", s) /\ <<"cash_session_close", s>> \notin pending
      /\ session[s].variance = 0
  BY <1>6 DEF DeskInv, SessionBooks, OfSession, Has
<1>10. /\ JournalSound'
       /\ \/ row.variance = 0 /\ journal' = journal /\ pending' = pending
          \/ /\ row.variance # 0 /\ journal' = journal
             /\ pending' = pending \cup {<<"cash_session_close", s>>}
          \/ /\ row.variance # 0 /\ pending' = pending
             /\ \E n : /\ n \notin journal /\ journal' = journal \cup {n}
                       /\ n.type = "cash_session_close" /\ n.ref = s
                       /\ n.lines = VarianceLines(row.variance)
                       /\ DOMAIN n.lines \cap inactive = {}
  <2>1. CASE row.variance = 0
    <3>1. time <= time'
      BY <1>6 DEF DeskInv, TypeOK
    <3> QED
      BY <1>5, <1>7, <2>1, <3>1, JournalStays DEF DeskInv
  <2>2. CASE row.variance # 0
    <3>1. IsLines(VarianceLines(row.variance))
      BY <1>4, DocumentLines DEF SessionRow
    <3> QED
      BY <1>5, <1>6, <1>7, <1>9, <2>2, <3>1, SessionPosted DEF SessionTypes
  <2> QED
    BY <2>1, <2>2
<1>11. DocsStay /\ PeriodsStay
  BY <1>4, <1>6, <1>8 DEF DocsStay, PeriodsStay
<1>12. /\ Adds(EntryType \ SaleTypes) /\ Adds(EntryType \ {"customer_payment"})
       /\ Adds(EntryType \ VoucherTypes) /\ Adds(EntryType \ {"transaction"})
       /\ journal \subseteq journal'
  BY <1>10 DEF Adds, EntryType, SaleTypes, VoucherTypes
<1>13. SessionBooks'
  <2>1. ASSUME NEW e \in journal', e.type \in SessionTypes PROVE OfSession(e)'
    <3>1. CASE e \in journal
      <4>1. OfSession(e) /\ <<e.type, e.ref>> # <<"cash_session_close", s>>
        BY <1>9, <2>1, <3>1 DEF DeskInv, SessionBooks, SessionTypes, Has, OfSession
      <4>2. <<e.type, e.ref>> \notin pending'
        BY <1>10, <4>1 DEF OfSession
      <4>3. CASE e.ref = s
        BY <1>4, <1>8, <1>9, <4>1, <4>2, <4>3 DEF OfSession
      <4>4. CASE e.ref # s
        BY <1>8, <4>1, <4>2, <4>4 DEF OfSession
      <4> QED
        BY <4>3, <4>4
    <3>2. CASE e \notin journal
      <4>1. /\ row.variance # 0 /\ pending' = pending
            /\ e.type = "cash_session_close" /\ e.ref = s /\ e.lines = VarianceLines(row.variance)
        BY <1>10, <3>2
      <4> QED
        BY <1>4, <1>8, <1>9, <4>1 DEF OfSession
    <3> QED
      BY <3>1, <3>2
  <2>2. ASSUME NEW u \in Session
        PROVE  /\ session'[u].status = "none" => session'[u].float = 0
               /\ session'[u].status # "closed" => session'[u].variance = 0
               /\ session'[u].float # 0 =>
                     Has("cash_session_open", u)' \/ <<"cash_session_open", u>> \in pending'
               /\ session'[u].variance # 0 =>
                     Has("cash_session_close", u)' \/ <<"cash_session_close", u>> \in pending'
               /\ <<"cash_session_open", u>> \in pending' => session'[u].float # 0
               /\ <<"cash_session_close", u>> \in pending' => session'[u].variance # 0
    <3>1. /\ \A type, r : Has(type, r) => Has(type, r)'
          /\ pending \subseteq pending'
          /\ \A x \in pending' : x \in pending \/ (x = <<"cash_session_close", s>> /\ row.variance # 0)
      BY <1>10, <1>12 DEF Has
    <3>2. CASE u = s
      <4>1. row.variance # 0 =>
               Has("cash_session_close", s)' \/ <<"cash_session_close", s>> \in pending'
        BY <1>10 DEF Has
      <4> QED
        BY <1>4, <1>8, <1>9, <3>1, <3>2, <4>1 DEF DeskInv, SessionBooks
    <3>3. CASE u # s
      BY <1>8, <3>1, <3>3 DEF DeskInv, SessionBooks
    <3> QED
      BY <3>2, <3>3
  <2> QED
    BY <2>1, <2>2 DEF SessionBooks, SessionTypes
<1>14. SaleBooks' /\ PaymentBooks' /\ VoucherBooks'
  BY <1>6, <1>11, <1>12, SalesStay, PaymentsStay, VouchersStay DEF DeskInv
<1>15. TillsTell'
  <2>1. \A u \in Session : Tendered(sale, u)' = Tendered(sale, u)
    BY <1>6 DEF Tendered, CompletedIn, SumOver
  <2>2. "open" \notin raced' => \A q, r \in OpenSessions' : q = r
    BY <1>4, <1>6, <1>8 DEF OpenSessions, DeskInv, TillsTell
  <2> HIDE DEF Tendered
  <2>3. \A u \in Session : u \notin raced' =>
           session'[u].expected = session'[u].float + Tendered(sale, u)
    BY <1>4, <1>6, <1>8 DEF DeskInv, TillsTell
  <2>4. \A u \in Session : session'[u].status = "closed" /\ u \notin raced' \cup late' =>
           session'[u].variance = session'[u].counted - (session'[u].float + Tendered(sale, u))
    BY <1>4, <1>6, <1>8, <2>3 DEF DeskInv, TillsTell
  <2> QED
    BY <2>1, <2>2, <2>3, <2>4 DEF TillsTell
<1>16. CustomersTell' /\ VoidsTell'
  BY <1>6, <1>11, <1>12, CustomersStay, VoidsStay DEF DeskInv
<1>17. HiddenTell'
  <2>1. \/ journal' = journal
        \/ \E n : journal' = journal \cup {n} /\ DOMAIN n.lines \cap inactive = {}
    BY <1>10
  <2> QED
    BY <1>6, <1>11, <2>1, HiddenStays DEF DeskInv
<1>18. HandlersKnow'
  BY <1>6, <1>10, <1>11, <1>12, HandlersStay DEF DeskInv
<1> QED
  BY <1>7, <1>10, <1>13, <1>14, <1>15, <1>16, <1>17, <1>18 DEF DeskInv

-----------------------------------------------------------------------------
(* Sales.                                                                  *)

\* A sale that is completed and posted.
LEMMA SaleCompleted ==
    ASSUME DeskInv, TypeOK', DocsStay, NEW t \in Sale, sale[t].status \in {"none", "pending"}, NEW row,
           sale' = [sale EXCEPT ![t] = row], row.status = "completed", row.done = time,
           SaleShape(row)', UNCHANGED <<time, period, crossed>>,
           Postable(DOMAIN SaleLines(row.basket), UtcDay(time)),
           Post("transaction", t, UtcDay(time), SaleLines(row.basket))
    PROVE  /\ JournalSound' /\ SaleBooks' /\ VoidsTell'
           /\ \E n : /\ n \notin journal /\ journal' = journal \cup {n} /\ n.type = "transaction"
                     /\ n.ref = t /\ DOMAIN n.lines \cap inactive = {}
<1>1. /\ sale'[t] = row /\ \A u \in Sale \ {t} : sale'[u] = sale[u]
      /\ row \in SaleRow
  BY DEF DeskInv, TypeOK
<1>2. ~Has("transaction", t) /\ ~Has("void", t)
  BY DEF DeskInv, SaleBooks, OfSale, Has
<1>12. t \notin crossed
  BY DEF DeskInv, SaleBooks
<1>3. /\ UtcDay(time) \in Day /\ UtcDay(time) <= Today /\ "transaction" \in EntryType
      /\ IsLines(SaleLines(row.basket))
  BY <1>1, DaysOrdered, DocumentLines DEF DeskInv, TypeOK, Today, EntryType, SaleRow
<1>4. /\ JournalSound'
      /\ \E n : /\ n \notin journal /\ journal' = journal \cup {n} /\ n.type = "transaction"
                /\ n.ref = t /\ n.day = UtcDay(time) /\ n.lines = SaleLines(row.basket)
  BY <1>2, <1>3, Posted DEF DeskInv
<1>5. PICK n : /\ n \notin journal /\ journal' = journal \cup {n} /\ n.type = "transaction"
               /\ n.ref = t /\ n.day = UtcDay(time) /\ n.lines = SaleLines(row.basket)
  BY <1>4
<1>6. ASSUME NEW type, NEW ref, Has(type, ref) PROVE Has(type, ref)'
  BY <1>5, <1>6 DEF Has
<1>7. ASSUME NEW e \in journal', e.type \in SaleTypes PROVE OfSale(e)'
  <2>1. CASE e \in journal
    <3>1. OfSale(e) /\ e.ref # t
      BY <1>2, <1>7, <2>1 DEF DeskInv, SaleBooks, SaleTypes, Has
    <3>2. sale'[e.ref] = sale[e.ref]
      BY <1>1, <3>1 DEF OfSale
    <3> QED
      BY <1>6, <3>1, <3>2 DEF OfSale
  <2>2. CASE e = n
    BY <1>1, <1>5, <2>2 DEF OfSale
  <2> QED
    BY <1>5, <2>1, <2>2
<1>8. ASSUME NEW u \in Sale
      PROVE  SaleShape(sale[u])' /\ (sale'[u].status = "completed" => Has("transaction", u)')
  <2>1. CASE u = t
    <3>1. Has("transaction", t)'
      BY <1>5 DEF Has
    <3>2. SaleShape(sale[u])'
      BY <1>1, <2>1 DEF SaleShape
    <3> QED
      BY <2>1, <3>1, <3>2
  <2>2. CASE u # t
    <3>1. SaleShape(sale[u]) /\ (sale[u].status = "completed" => Has("transaction", u))
      BY DEF DeskInv, SaleBooks
    <3>2. sale'[u] = sale[u]
      BY <1>1, <2>2
    <3>3. SaleShape(sale[u])'
      BY <3>1, <3>2 DEF SaleShape, DocsStay
    <3> QED
      BY <1>6, <3>1, <3>2, <3>3
  <2> QED
    BY <2>1, <2>2
<1>13. ASSUME NEW u \in Sale
       PROVE  /\ u \in crossed' => /\ sale'[u].status \in {"completed", "voided"}
                                  /\ sale'[u].basket.method = "mpesa"
              /\ u \notin crossed' => \A e, f \in Originals(u)' : e = f
  <2>1. CASE u = t
    <3>1. \A e \in Originals(u)' : e = n
      BY <1>2, <1>5, <2>1 DEF Originals, About, Has
    <3> QED
      BY <1>12, <2>1, <3>1
  <2>2. CASE u # t
    <3>1. Originals(u)' = Originals(u) /\ sale'[u] = sale[u]
      BY <1>1, <1>5, <2>2 DEF Originals, About
    <3> QED
      BY <3>1 DEF DeskInv, SaleBooks
  <2> QED
    BY <2>1, <2>2
<1>9. SaleBooks'
  BY <1>7, <1>8, <1>13 DEF SaleBooks, SaleTypes
<1>10. VoidsTell'
  <2>1. Unreversed' \subseteq Unreversed
    BY <1>1, <1>5 DEF Unreversed, Originals, About
  <2> QED
    BY <2>1 DEF DeskInv, VoidsTell
<1>11. DOMAIN n.lines \cap inactive = {}
  BY <1>5 DEF Postable
<1> QED
  BY <1>4, <1>5, <1>9, <1>10, <1>11

LEMMA CashSaleKeeps ==
    ASSUME DeskInv, NEW h \in Handler, NEW t \in Sale, CashSaleCommit(h, t)
    PROVE  DeskInv'
<1> USE DEF docs, ledger, history
<1>1. PICK s : s = handler[h].on
  OBVIOUS
<1>2. PICK seen : seen = handler[h].seen
  OBVIOUS
<1>3. s \in Session /\ session[s].status # "none" /\ seen \in Int
  BY <1>1, <1>2 DEF CashSaleCommit, DeskInv, HandlersKnow, Knows
<1>4. PICK b \in Basket :
          /\ b.method = "cash"
          /\ Postable(DOMAIN SaleLines(b), UtcDay(time))
          /\ sale' = [sale EXCEPT ![t] = NewSale(b, s, None, "completed")]
          /\ session' = [session EXCEPT ![s].expected = seen + b.total - b.change]
          /\ Post("transaction", t, UtcDay(time), SaleLines(b))
          /\ raced' = raced \cup (IF seen = session[s].expected THEN {} ELSE {s})
          /\ late' = late \cup (IF session[s].status = "open" THEN {} ELSE {s})
  BY <1>1, <1>2 DEF CashSaleCommit
<1>5. /\ UNCHANGED <<customer, payment, voucher, inactive, pending, period, crossed, edited, waived,
                     time>>
      /\ handler' = [handler EXCEPT ![h] = Idle]
      /\ sale[t].status = "none"
  BY DEF CashSaleCommit, Finish, IsNext
<1>6. b \in BasketRow /\ b.total - b.change \in Int /\ seen + b.total - b.change \in Int
  BY <1>3, CashDeskAssumption DEF BasketRow
<1>7. PICK row : row = [status |-> "completed", basket |-> b, session |-> s, customer |-> None,
                        created |-> time, done |-> time]
  OBVIOUS
<1>8. row \in SaleRow /\ sale' = [sale EXCEPT ![t] = row]
  BY <1>3, <1>4, <1>6, <1>7 DEF NewSale, SaleRow, DeskInv, TypeOK
<1>9. /\ \A u \in Session : /\ session'[u].status = session[u].status
                            /\ session'[u].float = session[u].float
                            /\ session'[u].counted = session[u].counted
                            /\ session'[u].variance = session[u].variance
                            /\ u # s => session'[u].expected = session[u].expected
      /\ session'[s].expected = seen + b.total - b.change
      /\ session' \in [Session -> SessionRow]
  <2>1. PICK x : x = seen + b.total - b.change
    OBVIOUS
  <2>2. PICK old : old = session[s]
    OBVIOUS
  <2>3. session' = [session EXCEPT ![s] = [old EXCEPT !.expected = x]]
    BY <1>4, <2>1, <2>2
  <2>4. old \in SessionRow /\ x \in Int
    BY <1>3, <1>6, <2>1, <2>2 DEF DeskInv, TypeOK
  <2>5. PICK new : new = [old EXCEPT !.expected = x]
    OBVIOUS
  <2>6. /\ new \in SessionRow /\ new.status = old.status /\ new.float = old.float
        /\ new.counted = old.counted /\ new.variance = old.variance /\ new.expected = x
    BY <2>4, <2>5 DEF SessionRow
  <2> QED
    BY <1>3, <2>1, <2>2, <2>3, <2>5, <2>6 DEF DeskInv, TypeOK
<1>10. TypeOK'
  BY <1>5, <1>8, <1>9 DEF DeskInv, TypeOK
<1>11. /\ sale'[t] = row /\ \A u \in Sale \ {t} : sale'[u] = sale[u]
  BY <1>8 DEF DeskInv, TypeOK
<1>12. DocsStay /\ PeriodsStay
  BY <1>5, <1>9, <1>11 DEF DocsStay, PeriodsStay
<1>13. SaleShape(row)'
  BY <1>3, <1>4, <1>7, <1>9 DEF SaleShape
<1>14. /\ JournalSound' /\ SaleBooks' /\ VoidsTell'
       /\ \E n : /\ n \notin journal /\ journal' = journal \cup {n} /\ n.type = "transaction"
                 /\ n.ref = t /\ DOMAIN n.lines \cap inactive = {}
  BY <1>4, <1>5, <1>7, <1>8, <1>10, <1>12, <1>13, SaleCompleted
<1>15. /\ Adds(EntryType \ SessionTypes) /\ Adds(EntryType \ {"customer_payment"})
       /\ Adds(EntryType \ VoucherTypes)
       /\ journal \subseteq journal'
  BY <1>14 DEF Adds, EntryType, SessionTypes, VoucherTypes
<1>16. SessionBooks' /\ PaymentBooks' /\ VoucherBooks'
  <2>1. raced \subseteq raced'
    BY <1>4
  <2> QED
    BY <1>5, <1>9, <1>15, <2>1, SessionsStay, PaymentsStay, VouchersStay DEF DeskInv
<1>17. PICK sl \in [Sale -> SaleRow], sm \in [Sale -> SaleRow] : sl = sale /\ sm = sale'
  BY <1>10 DEF DeskInv, TypeOK
<1>18. \A u \in Sale \ {t} : sm[u] = sl[u]
  BY <1>11, <1>17
<1>19. TillsTell'
  <2>1. \A u \in Session : /\ Tendered(sm, u) = Tendered(sl, u) + TillShare(sm[t], u) - TillShare(sl[t], u)
                           /\ Tendered(sl, u) \in Int
    BY <1>18, TenderedMoves
  <2>2. \A u \in Session : /\ TillShare(sm[t], u) = IF u = s THEN b.total - b.change ELSE 0
                           /\ TillShare(sl[t], u) = 0
    BY <1>5, <1>7, <1>11, <1>17 DEF TillShare
  <2>3. \A u \in Session : /\ Tendered(sale, u)' = Tendered(sm, u)
                           /\ Tendered(sale, u) = Tendered(sl, u)
    BY <1>17 DEF Tendered, CompletedIn, SumOver
  <2>4. "open" \notin raced' => \A q, r \in OpenSessions' : q = r
    BY <1>4, <1>9 DEF OpenSessions, DeskInv, TillsTell
  <2> HIDE DEF Tendered, TillShare
  <2>5. ASSUME NEW u \in Session, u \notin raced'
        PROVE  session'[u].expected = session'[u].float + Tendered(sm, u)
    <3>1. session[u].expected = session[u].float + Tendered(sl, u)
      BY <1>4, <2>3, <2>5 DEF DeskInv, TillsTell
    <3>2. session[u].float \in Int /\ session[u].expected \in Int
      BY DEF DeskInv, TypeOK, SessionRow
    <3>3. CASE u = s
      <4>1. seen = session[u].expected
        BY <1>4, <2>5, <3>3
      <4>2. session'[u].expected = session[u].expected + b.total - b.change
        BY <1>9, <3>3, <4>1
      <4>3. Tendered(sm, u) = Tendered(sl, u) + (b.total - b.change)
        BY <1>6, <2>1, <2>2, <3>3
      <4>4. b.total \in Int /\ b.change \in Int
        BY <1>6 DEF BasketRow
      <4> QED
        BY <1>9, <2>1, <3>1, <3>2, <4>2, <4>3, <4>4
    <3>4. CASE u # s
      <4>1. Tendered(sm, u) = Tendered(sl, u)
        BY <2>1, <2>2, <3>4
      <4> QED
        BY <1>9, <3>1, <3>4, <4>1
    <3> QED
      BY <3>3, <3>4
  <2>6. ASSUME NEW u \in Session, session'[u].status = "closed", u \notin raced' \cup late'
        PROVE  session'[u].variance = session'[u].counted - (session'[u].float + Tendered(sm, u))
    <3>1. u # s /\ u \notin raced \cup late
      BY <1>4, <1>9, <2>6
    <3>2. Tendered(sm, u) = Tendered(sl, u)
      BY <2>1, <2>2, <3>1
    <3> QED
      BY <1>9, <2>3, <2>6, <3>1, <3>2 DEF DeskInv, TillsTell
  <2> QED
    BY <2>3, <2>4, <2>5, <2>6 DEF TillsTell
<1>20. CustomersTell'
  <2>1. \A c \in Customer : \A m : /\ Charged(sm, c, m) = Charged(sl, c, m) + ChargedShare(sm[t], c, m)
                                                            - ChargedShare(sl[t], c, m)
                                   /\ Charged(sl, c, m) \in Int
    BY <1>18, ChargedMoves
  <2>2. \A c \in Customer : \A m : ChargedShare(sm[t], c, m) = 0 /\ ChargedShare(sl[t], c, m) = 0
    BY <1>5, <1>7, <1>11, <1>17, CashDeskAssumption DEF ChargedShare
  <2>3. \A c \in Customer : \A m : /\ Charged(sale, c, m)' = Charged(sm, c, m)
                                   /\ Charged(sale, c, m) = Charged(sl, c, m)
    BY <1>17 DEF Charged, CompletedIn, SumOver
  <2>4. \A c \in Customer : \A m : Charged(sale, c, m)' = Charged(sale, c, m)
    <3> HIDE DEF Charged, ChargedShare
    <3> QED
      BY <2>1, <2>2, <2>3
  <2>5. \A c \in Customer : PaidBy(payment, c)' = PaidBy(payment, c)
    BY <1>5 DEF PaidBy, SumOver
  <2> HIDE DEF Charged, PaidBy
  <2> QED
    BY <1>5, <2>4, <2>5 DEF DeskInv, CustomersTell
<1>21. HiddenTell'
  <2>1. \E n : journal' = journal \cup {n} /\ DOMAIN n.lines \cap inactive = {}
    BY <1>14
  <2>2. raced \subseteq raced'
    BY <1>4
  <2> QED
    BY <1>5, <1>12, <2>1, <2>2, HiddenStays DEF DeskInv
<1>22. HandlersKnow'
  <2>1. SettledStay
    BY <1>5, <1>14, SettledStays
  <2> QED
    BY <1>5, <1>12, <1>14, <1>15, <2>1, HandlersStay DEF DeskInv
<1> QED
  BY <1>10, <1>14, <1>16, <1>19, <1>20, <1>21, <1>22 DEF DeskInv

\* What the sums over sales are after one sale was written.
LEMMA SumsAfter ==
    ASSUME TypeOK, TypeOK', NEW t \in Sale, \A u \in Sale \ {t} : sale'[u] = sale[u],
           NEW old, old = sale[t], NEW row, row = sale'[t]
    PROVE  /\ \A s : /\ Tendered(sale, s)' = Tendered(sale, s) + TillShare(row, s) - TillShare(old, s)
                     /\ Tendered(sale, s) \in Int
           /\ \A c, m : /\ Charged(sale, c, m)' = Charged(sale, c, m) + ChargedShare(row, c, m)
                                                     - ChargedShare(old, c, m)
                        /\ Charged(sale, c, m) \in Int
<1>1. PICK sl \in [Sale -> SaleRow], sm \in [Sale -> SaleRow] : sl = sale /\ sm = sale'
  BY DEF TypeOK
<1>2. (\A u \in Sale \ {t} : sm[u] = sl[u]) /\ sl[t] = old /\ sm[t] = row
  BY <1>1
<1>3. /\ \A s : /\ Tendered(sm, s) = Tendered(sl, s) + TillShare(row, s) - TillShare(old, s)
                /\ Tendered(sl, s) \in Int
      /\ \A c, m : /\ Charged(sm, c, m) = Charged(sl, c, m) + ChargedShare(row, c, m)
                                             - ChargedShare(old, c, m)
                   /\ Charged(sl, c, m) \in Int
  BY <1>2, TenderedMoves, ChargedMoves
<1>4. \A s : Tendered(sale, s)' = Tendered(sm, s) /\ Tendered(sale, s) = Tendered(sl, s)
  BY <1>1 DEF Tendered, CompletedIn, SumOver
<1>5. \A c, m : Charged(sale, c, m)' = Charged(sm, c, m) /\ Charged(sale, c, m) = Charged(sl, c, m)
  BY <1>1 DEF Charged, CompletedIn, SumOver
<1> HIDE DEF Tendered, Charged, TillShare, ChargedShare
<1> QED
  BY <1>3, <1>4, <1>5

\* A sale outside the till leaves the tills as they were.
LEMMA TillsPass ==
    ASSUME TypeOK, TypeOK', TillsTell, session' = session, raced \subseteq raced', late \subseteq late',
           NEW t \in Sale, \A u \in Sale \ {t} : sale'[u] = sale[u],
           sale[t].session = None, sale'[t].session = None
    PROVE  TillsTell'
<1>1. PICK old, row : old = sale[t] /\ row = sale'[t]
  OBVIOUS
<1>2. \A s \in Session : TillShare(row, s) = 0 /\ TillShare(old, s) = 0
  BY <1>1, CashDeskAssumption DEF TillShare
<1>3. \A s \in Session : Tendered(sale, s)' = Tendered(sale, s)
  <2>1. \A s : /\ Tendered(sale, s)' = Tendered(sale, s) + TillShare(row, s) - TillShare(old, s)
               /\ Tendered(sale, s) \in Int
    BY <1>1, SumsAfter
  <2> HIDE DEF Tendered, TillShare
  <2> QED
    BY <1>2, <2>1
<1>4. OpenSessions' = OpenSessions
  BY DEF OpenSessions
<1> HIDE DEF Tendered, OpenSessions
<1> QED
  BY <1>3, <1>4 DEF TillsTell

\* A sale without a customer leaves the customers as they were.
LEMMA CustomersPass ==
    ASSUME TypeOK, TypeOK', CustomersTell, UNCHANGED <<customer, payment, waived>>,
           edited \subseteq edited', NEW t \in Sale, \A u \in Sale \ {t} : sale'[u] = sale[u],
           sale[t].customer = None, sale'[t].customer = None
    PROVE  CustomersTell'
<1>1. PICK old, row : old = sale[t] /\ row = sale'[t]
  OBVIOUS
<1>2. \A c \in Customer : \A m : ChargedShare(row, c, m) = 0 /\ ChargedShare(old, c, m) = 0
  BY <1>1, CashDeskAssumption DEF ChargedShare
<1>3. \A c \in Customer : \A m : Charged(sale, c, m)' = Charged(sale, c, m)
  <2>1. \A c, m : /\ Charged(sale, c, m)' = Charged(sale, c, m) + ChargedShare(row, c, m)
                                               - ChargedShare(old, c, m)
                  /\ Charged(sale, c, m) \in Int
    BY <1>1, SumsAfter
  <2> HIDE DEF Charged, ChargedShare
  <2> QED
    BY <1>2, <2>1
<1>4. \A c \in Customer : PaidBy(payment, c)' = PaidBy(payment, c)
  BY DEF PaidBy, SumOver
<1> HIDE DEF Charged, PaidBy
<1> QED
  BY <1>3, <1>4 DEF CustomersTell

\* A sale that was written over a row that had changed, with another entry or none.
LEMMA SaleCrossed ==
    ASSUME DeskInv, TypeOK', DocsStay, NEW t \in Sale, sale[t].status \in {"completed", "voided"},
           sale[t].basket.method = "mpesa", NEW row, sale' = [sale EXCEPT ![t] = row],
           row.status \in {"completed", "voided"}, row.basket = sale[t].basket, SaleShape(row)',
           crossed' = crossed \cup {t}, UNCHANGED <<time, period>>,
           \/ journal' = journal /\ (row.status = "completed" => Has("transaction", t))
           \/ Post("transaction", t, UtcDay(time), SaleLines(row.basket))
    PROVE  /\ JournalSound' /\ SaleBooks' /\ VoidsTell'
           /\ \/ journal' = journal
              \/ \E n : /\ n \notin journal /\ journal' = journal \cup {n} /\ n.type = "transaction"
                        /\ n.ref = t /\ n.lines = SaleLines(row.basket)
<1>1. /\ sale'[t] = row /\ \A u \in Sale \ {t} : sale'[u] = sale[u]
      /\ row \in SaleRow
  BY DEF DeskInv, TypeOK
<1>2. /\ UtcDay(time) \in Day /\ UtcDay(time) <= Today /\ "transaction" \in EntryType
      /\ ~Single("transaction") /\ IsLines(SaleLines(row.basket))
  BY <1>1, DaysOrdered, DocumentLines DEF DeskInv, TypeOK, Today, EntryType, SaleRow, Single
<1>3. /\ JournalSound'
      /\ \/ journal' = journal /\ (row.status = "completed" => Has("transaction", t))
         \/ \E n : /\ n \notin journal /\ journal' = journal \cup {n} /\ n.type = "transaction"
                   /\ n.ref = t /\ n.lines = SaleLines(row.basket)
  <2>1. CASE Post("transaction", t, UtcDay(time), SaleLines(row.basket))
    BY <1>2, <2>1, Posted DEF DeskInv
  <2>2. CASE journal' = journal /\ (row.status = "completed" => Has("transaction", t))
    <3>1. time <= time'
      BY DEF DeskInv, TypeOK
    <3> QED
      BY <2>2, <3>1, JournalStays DEF DeskInv
  <2> QED
    BY <2>1, <2>2
<1>4. /\ journal \subseteq journal'
      /\ \A e \in journal' : e \in journal \/ (/\ e.type = "transaction" /\ e.ref = t
                                               /\ e.lines = SaleLines(row.basket))
  BY <1>3
<1>5. \A type, ref : Has(type, ref) => Has(type, ref)'
  BY <1>4 DEF Has
<1>6. ASSUME NEW e \in journal', e.type \in SaleTypes PROVE OfSale(e)'
  <2>1. CASE e \in journal
    <3>1. OfSale(e)
      BY <1>6, <2>1 DEF DeskInv, SaleBooks, SaleTypes
    <3>2. CASE e.ref = t
      BY <1>1, <1>5, <3>1, <3>2 DEF OfSale
    <3>3. CASE e.ref # t
      BY <1>1, <1>5, <3>1, <3>3 DEF OfSale
    <3> QED
      BY <3>2, <3>3
  <2>2. CASE e \notin journal
    BY <1>1, <1>4, <2>2 DEF OfSale
  <2> QED
    BY <2>1, <2>2
<1>7. ASSUME NEW u \in Sale
      PROVE  /\ SaleShape(sale[u])' /\ (sale'[u].status = "completed" => Has("transaction", u)')
             /\ u \in crossed' => /\ sale'[u].status \in {"completed", "voided"}
                                  /\ sale'[u].basket.method = "mpesa"
             /\ u \notin crossed' => \A e, f \in Originals(u)' : e = f
  <2>1. CASE u = t
    <3>1. row.status = "completed" => Has("transaction", t)'
      <4>1. CASE journal' = journal /\ (row.status = "completed" => Has("transaction", t))
        BY <1>5, <4>1
      <4>2. CASE journal' # journal
        BY <1>3, <4>2 DEF Has
      <4> QED
        BY <1>3, <4>1, <4>2
    <3>2. SaleShape(sale[u])'
      BY <1>1, <2>1 DEF SaleShape
    <3> QED
      BY <1>1, <2>1, <3>1, <3>2
  <2>2. CASE u # t
    <3>1. Originals(u)' = Originals(u) /\ sale'[u] = sale[u]
      BY <1>1, <1>4, <2>2 DEF Originals, About
    <3>2. SaleShape(sale[u])'
      BY <3>1 DEF SaleShape, DocsStay, DeskInv, SaleBooks
    <3> QED
      BY <1>5, <2>2, <3>1, <3>2 DEF DeskInv, SaleBooks
  <2> QED
    BY <2>1, <2>2
<1>8. SaleBooks'
  BY <1>6, <1>7 DEF SaleBooks, SaleTypes
<1>9. VoidsTell'
  <2>1. Unreversed' \ crossed' \subseteq Unreversed \ crossed
    BY <1>1, <1>4 DEF Unreversed, Originals, About
  <2> QED
    BY <2>1 DEF DeskInv, VoidsTell
<1> QED
  BY <1>3, <1>8, <1>9

\* The row of an M-PESA sale, with another status and time.
Rewritten(old, row) ==
    /\ row \in SaleRow /\ row.status \in {"completed", "voided"}
    /\ row.basket = old.basket /\ row.session = old.session /\ row.customer = old.customer

LEMMA MpesaWrites ==
    ASSUME DeskInv, NEW t \in Sale, sale[t].status # "none", sale[t].basket.method = "mpesa",
           NEW row, Rewritten(sale[t], row), sale' = [sale EXCEPT ![t] = row],
           UNCHANGED <<session, customer, payment, voucher, period, time, waived>>,
           crossed' \subseteq Sale
    PROVE  /\ TypeOK' /\ DocsStay /\ SaleShape(row)' /\ PeriodsStay
           /\ sale'[t] = row /\ \A u \in Sale \ {t} : sale'[u] = sale[u]
           /\ sale[t].session = None /\ sale[t].customer = None
<1>1. PICK old : old = sale[t]
  OBVIOUS
<1>2. old \in SaleRow /\ SaleShape(old)
  BY <1>1 DEF DeskInv, TypeOK, SaleBooks
<1>3. TypeOK' /\ sale'[t] = row /\ \A u \in Sale \ {t} : sale'[u] = sale[u]
  BY DEF DeskInv, TypeOK, Rewritten
<1>4. DocsStay /\ PeriodsStay
  BY <1>3 DEF DocsStay, PeriodsStay, Rewritten
<1>5. SaleShape(row)' /\ old.session = None /\ old.customer = None
  BY <1>1, <1>2 DEF SaleShape, Rewritten
<1> QED
  BY <1>1, <1>3, <1>4, <1>5

\* An M-PESA sale is in no till and on no account: what writes it keeps the rest.
LEMMA MpesaKeeps ==
    ASSUME DeskInv, NEW t \in Sale, sale[t].status # "none", sale[t].basket.method = "mpesa",
           NEW row, Rewritten(sale[t], row), sale' = [sale EXCEPT ![t] = row],
           UNCHANGED <<session, customer, payment, voucher, inactive, pending, period, time,
                       raced, late, edited, waived>>,
           crossed' \subseteq Sale,
           handler' = handler \/ \E h \in Handler : handler' = [handler EXCEPT ![h] = Idle],
           JournalSound', SaleBooks', VoidsTell',
           \/ journal' = journal
           \/ \E n : /\ n \notin journal /\ journal' = journal \cup {n} /\ n.ref = t
                     /\ n.type = "transaction" /\ DOMAIN n.lines \cap inactive = {}
    PROVE  DeskInv'
<1>1. /\ TypeOK' /\ DocsStay /\ PeriodsStay
      /\ sale'[t] = row /\ \A u \in Sale \ {t} : sale'[u] = sale[u]
      /\ sale[t].session = None /\ sale[t].customer = None
  BY MpesaWrites
<1>2. row.session = None /\ row.customer = None
  BY <1>1 DEF Rewritten
<1>3. /\ Adds(EntryType \ SessionTypes) /\ Adds(EntryType \ {"customer_payment"})
      /\ Adds(EntryType \ VoucherTypes)
      /\ journal \subseteq journal'
  BY DEF Adds, EntryType, SessionTypes, VoucherTypes
<1>4. SessionBooks' /\ PaymentBooks' /\ VoucherBooks'
  BY <1>3, SessionsStay, PaymentsStay, VouchersStay DEF DeskInv
<1>5. TypeOK /\ TillsTell /\ CustomersTell
  BY DEF DeskInv
<1>6. TillsTell'
  BY <1>1, <1>2, <1>5, TillsPass
<1>7. CustomersTell'
  BY <1>1, <1>2, <1>5, CustomersPass
<1>8. HiddenTell'
  <2>1. journal' = journal \/ \E n : journal' = journal \cup {n} /\ DOMAIN n.lines \cap inactive = {}
    OBVIOUS
  <2> QED
    BY <1>1, <2>1, HiddenStays DEF DeskInv
<1>9. HandlersKnow'
  <2>1. SettledStay
    BY SettledStays
  <2> QED
    BY <1>1, <1>3, <2>1, HandlersStay DEF DeskInv
<1> QED
  BY <1>1, <1>4, <1>6, <1>7, <1>8, <1>9 DEF DeskInv

LEMMA CallbackKeeps ==
    ASSUME DeskInv, NEW t \in Sale, Callback(t)
    PROVE  DeskInv'
<1> USE DEF history
<1>1. /\ sale[t].status = "pending" /\ sale[t].basket.method = "mpesa" /\ time \in 0 .. MaxTime
      /\ crossed \subseteq Sale /\ sale[t] \in SaleRow
  BY DEF Callback, DeskInv, TypeOK, SaleBooks, SaleShape
<1>2. PICK row : row = [[sale[t] EXCEPT !.status = "completed"] EXCEPT !.done = time]
  OBVIOUS
<1>3. /\ sale' = [sale EXCEPT ![t] = row]
      /\ UNCHANGED <<session, customer, payment, voucher, inactive, pending, period, handler, time,
                     raced, crossed, late, edited, waived>>
  BY <1>2 DEF Callback
<1>7. /\ Rewritten(sale[t], row) /\ row.status = "completed" /\ row.done = time
      /\ row.basket = sale[t].basket
  <2>1. PICK old : old = sale[t]
    OBVIOUS
  <2>2. PICK done : done = time
    OBVIOUS
  <2>3. PICK a : a = [old EXCEPT !.status = "completed"]
    OBVIOUS
  <2>4. old \in SaleRow /\ done \in 0 .. MaxTime /\ row = [a EXCEPT !.done = done]
    BY <1>1, <1>2, <2>1, <2>2, <2>3
  <2>5. /\ a \in SaleRow /\ a.status = "completed"
        /\ a.basket = old.basket /\ a.session = old.session /\ a.customer = old.customer
    BY <2>3, <2>4 DEF SaleRow
  <2>6. /\ row \in SaleRow /\ row.status = a.status /\ row.done = done
        /\ row.basket = a.basket /\ row.session = a.session /\ row.customer = a.customer
    BY <2>4, <2>5 DEF SaleRow
  <2> QED
    BY <2>1, <2>2, <2>5, <2>6 DEF Rewritten
<1>4. TypeOK' /\ DocsStay /\ SaleShape(row)'
  BY <1>1, <1>3, <1>7, MpesaWrites
<1>5. /\ Postable(DOMAIN SaleLines(row.basket), UtcDay(time))
      /\ Post("transaction", t, UtcDay(time), SaleLines(row.basket))
  BY <1>7 DEF Callback
<1>6. /\ JournalSound' /\ SaleBooks' /\ VoidsTell'
      /\ \E n : /\ n \notin journal /\ journal' = journal \cup {n} /\ n.type = "transaction"
                /\ n.ref = t /\ DOMAIN n.lines \cap inactive = {}
  BY <1>1, <1>3, <1>4, <1>5, <1>7, SaleCompleted
<1> QED
  BY <1>1, <1>3, <1>6, <1>7, MpesaKeeps

\* The manual confirmation: of a pending sale it is as the callback's; over a row
\* that had changed the sale counts as crossed.
LEMMA ConfirmKeeps ==
    ASSUME DeskInv, NEW h \in Handler, ConfirmCommit(h)
    PROVE  DeskInv'
<1> USE DEF history
<1>1. PICK t : t = handler[h].on
  OBVIOUS
<1>2. PICK seen : seen = handler[h].seen
  OBVIOUS
<1>3. /\ t \in Sale /\ sale[t].status # "none" /\ sale[t].basket.method = "mpesa"
      /\ seen = 0 \/ Has("transaction", t)
  <2> HIDE DEF Has
  <2> QED
    BY <1>1, <1>2 DEF ConfirmCommit, DeskInv, HandlersKnow, Knows
<1>4. time \in 0 .. MaxTime /\ crossed \subseteq Sale /\ sale[t] \in SaleRow
  BY <1>3 DEF DeskInv, TypeOK
<1>5. PICK row : row = [[sale[t] EXCEPT !.status = "completed"] EXCEPT !.done = time]
  OBVIOUS
<1>6. /\ sale' = [sale EXCEPT ![t] = row]
      /\ UNCHANGED <<session, customer, payment, voucher, inactive, pending, period, time,
                     raced, late, edited, waived>>
      /\ crossed' = crossed \cup (IF sale[t].status = "pending" THEN {} ELSE {t})
      /\ handler' = [handler EXCEPT ![h] = Idle]
  BY <1>1, <1>5 DEF ConfirmCommit, Finish
<1>7. /\ Rewritten(sale[t], row) /\ row.status = "completed" /\ row.done = time
      /\ row.basket = sale[t].basket
  <2>1. PICK old : old = sale[t]
    OBVIOUS
  <2>2. PICK done : done = time
    OBVIOUS
  <2>3. PICK a : a = [old EXCEPT !.status = "completed"]
    OBVIOUS
  <2>4. old \in SaleRow /\ done \in 0 .. MaxTime /\ row = [a EXCEPT !.done = done]
    BY <1>4, <1>5, <2>1, <2>2, <2>3
  <2>5. /\ a \in SaleRow /\ a.status = "completed"
        /\ a.basket = old.basket /\ a.session = old.session /\ a.customer = old.customer
    BY <2>3, <2>4 DEF SaleRow
  <2>6. /\ row \in SaleRow /\ row.status = a.status /\ row.done = done
        /\ row.basket = a.basket /\ row.session = a.session /\ row.customer = a.customer
    BY <2>4, <2>5 DEF SaleRow
  <2> QED
    BY <2>1, <2>2, <2>5, <2>6 DEF Rewritten
<1>11. crossed' \subseteq Sale
  BY <1>3, <1>4, <1>6
<1>12. TypeOK' /\ DocsStay /\ SaleShape(row)'
  BY <1>3, <1>6, <1>7, <1>11, MpesaWrites
<1>8. IF seen > 0 THEN journal' = journal
      ELSE /\ Postable(DOMAIN SaleLines(row.basket), UtcDay(time))
           /\ Post("transaction", t, UtcDay(time), SaleLines(row.basket))
  BY <1>1, <1>2, <1>7 DEF ConfirmCommit
<1>9. CASE sale[t].status = "pending"
  <2>1. ~Has("transaction", t)
    BY <1>9 DEF DeskInv, SaleBooks, OfSale, Has
  <2>2. ~(seen > 0)
    BY <1>3, <2>1
  <2>3. /\ JournalSound' /\ SaleBooks' /\ VoidsTell'
        /\ \E n : /\ n \notin journal /\ journal' = journal \cup {n} /\ n.type = "transaction"
                  /\ n.ref = t /\ DOMAIN n.lines \cap inactive = {}
    BY <1>3, <1>6, <1>7, <1>8, <1>9, <1>12, <2>2, SaleCompleted
  <2> QED
    BY <1>3, <1>6, <1>7, <1>11, <2>3, MpesaKeeps
<1>10. CASE sale[t].status # "pending"
  <2>1. sale[t].status \in {"completed", "voided"} /\ crossed' = crossed \cup {t}
    BY <1>3, <1>6, <1>10 DEF DeskInv, TypeOK, SaleRow
  <2>2. \/ journal' = journal /\ (row.status = "completed" => Has("transaction", t))
        \/ /\ Postable(DOMAIN SaleLines(row.basket), UtcDay(time))
           /\ Post("transaction", t, UtcDay(time), SaleLines(row.basket))
    <3> HIDE DEF Has
    <3>1. CASE seen > 0
      <4>1. seen # 0
        BY <3>1
      <4> QED
        BY <1>3, <1>8, <3>1, <4>1
    <3>2. CASE ~(seen > 0)
      BY <1>8, <3>2
    <3> QED
      BY <3>1, <3>2
  <2>3. /\ JournalSound' /\ SaleBooks' /\ VoidsTell'
        /\ \/ journal' = journal
           \/ \E n : /\ n \notin journal /\ journal' = journal \cup {n} /\ n.type = "transaction"
                     /\ n.ref = t /\ n.lines = SaleLines(row.basket)
    BY <1>3, <1>6, <1>7, <1>12, <2>1, <2>2, SaleCrossed
  <2>4. journal' # journal => DOMAIN SaleLines(row.basket) \cap inactive = {}
    BY <2>2 DEF Postable
  <2> QED
    BY <1>3, <1>6, <1>7, <1>11, <2>3, <2>4, MpesaKeeps
<1> QED
  BY <1>9, <1>10

\* A payment that failed: the sale is void, with the entry that it may have got.
LEMMA FailKeeps ==
    ASSUME DeskInv, NEW h \in Handler, FailCommit(h)
    PROVE  DeskInv'
<1> USE DEF ledger
<1>1. PICK t : t = handler[h].on
  OBVIOUS
<1>2. t \in Sale /\ sale[t].status # "none" /\ sale[t].basket.method = "mpesa"
  BY <1>1 DEF FailCommit, DeskInv, HandlersKnow, Knows
<1>3. /\ sale[t] \in SaleRow /\ sale[t].done \in 0 .. MaxTime /\ crossed \subseteq Sale
      /\ sale[t].status \in {"pending", "completed", "voided"}
  BY <1>2 DEF DeskInv, TypeOK, SaleRow
<1>4. PICK row : row = [[sale[t] EXCEPT !.status = "voided"] EXCEPT !.done = sale[t].done]
  OBVIOUS
<1>5. row = [sale[t] EXCEPT !.status = "voided"]
  BY <1>3, <1>4 DEF SaleRow
<1>6. /\ sale' = [sale EXCEPT ![t] = row]
      /\ UNCHANGED <<session, customer, payment, voucher, inactive, pending, period, time,
                     raced, late, edited, waived>>
      /\ journal' = journal
      /\ crossed' = crossed \cup (IF sale[t].status = "completed" THEN {t} ELSE {})
      /\ handler' = [handler EXCEPT ![h] = Idle]
  BY <1>1, <1>5 DEF FailCommit, Finish
<1>10. /\ Rewritten(sale[t], row) /\ row.status = "voided" /\ row.done = sale[t].done
       /\ row.basket = sale[t].basket
  <2>1. PICK old : old = sale[t]
    OBVIOUS
  <2>2. PICK done : done = sale[t].done
    OBVIOUS
  <2>3. PICK a : a = [old EXCEPT !.status = "voided"]
    OBVIOUS
  <2>4. old \in SaleRow /\ done \in 0 .. MaxTime /\ row = [a EXCEPT !.done = done]
    BY <1>3, <1>4, <2>1, <2>2, <2>3
  <2>5. /\ a \in SaleRow /\ a.status = "voided"
        /\ a.basket = old.basket /\ a.session = old.session /\ a.customer = old.customer
    BY <2>3, <2>4 DEF SaleRow
  <2>6. /\ row \in SaleRow /\ row.status = a.status /\ row.done = done
        /\ row.basket = a.basket /\ row.session = a.session /\ row.customer = a.customer
    BY <2>4, <2>5 DEF SaleRow
  <2> QED
    BY <2>1, <2>2, <2>5, <2>6 DEF Rewritten
<1>11. crossed' \subseteq Sale
  BY <1>2, <1>3, <1>6
<1>7. TypeOK' /\ DocsStay /\ SaleShape(row)'
  BY <1>2, <1>6, <1>10, <1>11, MpesaWrites
<1>8. CASE sale[t].status = "completed"
  <2>1. JournalSound' /\ SaleBooks' /\ VoidsTell'
    BY <1>2, <1>6, <1>7, <1>8, <1>10, SaleCrossed
  <2> QED
    BY <1>2, <1>6, <1>10, <1>11, <2>1, MpesaKeeps
<1>9. CASE sale[t].status # "completed"
  <2>1. /\ sale'[t] = row /\ \A u \in Sale \ {t} : sale'[u] = sale[u]
        /\ crossed' = crossed /\ time <= time'
    <3>1. sale'[t] = row /\ \A u \in Sale \ {t} : sale'[u] = sale[u]
      BY <1>2, <1>6, <1>10, <1>11, MpesaWrites
    <3>2. crossed' = crossed /\ time <= time'
      BY <1>6, <1>9 DEF DeskInv, TypeOK
    <3> QED
      BY <3>1, <3>2
  <2>2. JournalSound'
    BY <1>6, <1>7, <2>1, JournalStays DEF DeskInv
  <2>3. sale[t].status = "pending" => ~Has("transaction", t) /\ ~Has("void", t)
    BY DEF DeskInv, SaleBooks, OfSale, Has
  <2>4. \A type, ref : Has(type, ref)' <=> Has(type, ref)
    BY <1>6 DEF Has
  <2>5. ASSUME NEW e \in journal', e.type \in SaleTypes PROVE OfSale(e)'
    <3>1. OfSale(e) /\ e \in journal
      BY <1>6, <2>5 DEF DeskInv, SaleBooks, SaleTypes
    <3>2. CASE e.ref = t
      <4>1. sale[t].status = "voided"
        BY <1>3, <1>9, <2>3, <2>5, <3>1, <3>2 DEF Has, SaleTypes
      <4> QED
        BY <1>10, <2>1, <2>4, <3>1, <3>2, <4>1 DEF OfSale
    <3>3. CASE e.ref # t
      BY <2>1, <2>4, <3>1, <3>3 DEF OfSale
    <3> QED
      BY <3>2, <3>3
  <2>6. ASSUME NEW u \in Sale
        PROVE  /\ SaleShape(sale[u])' /\ (sale'[u].status = "completed" => Has("transaction", u)')
               /\ u \in crossed' => /\ sale'[u].status \in {"completed", "voided"}
                                    /\ sale'[u].basket.method = "mpesa"
               /\ u \notin crossed' => \A e, f \in Originals(u)' : e = f
    <3>1. Originals(u)' = Originals(u)
      BY <1>6 DEF Originals, About
    <3>2. SaleShape(sale[u])'
      <4>1. CASE u = t
        BY <1>7, <2>1, <4>1 DEF SaleShape
      <4>2. CASE u # t
        BY <1>7, <2>1, <4>2 DEF SaleShape, DocsStay, DeskInv, SaleBooks
      <4> QED
        BY <4>1, <4>2
    <3> QED
      BY <1>2, <1>10, <2>1, <2>4, <3>1, <3>2 DEF DeskInv, SaleBooks
  <2>7. SaleBooks'
    BY <2>5, <2>6 DEF SaleBooks, SaleTypes
  <2>8. VoidsTell'
    <3>1. ASSUME NEW u \in Unreversed' PROVE u \in Unreversed
      <4>1. u \in Sale /\ Originals(u) # {} /\ About(journal, {"void"}, {u}) = {}
            /\ sale'[u].status = "voided"
        BY <1>6, <3>1 DEF Unreversed, Originals, About
      <4>2. sale[u].status = "voided"
        <5>1. CASE u = t
          <6>1. Has("transaction", t)
            BY <4>1, <5>1 DEF Originals, About, Has
          <6> QED
            BY <1>3, <1>9, <2>3, <5>1, <6>1
        <5>2. CASE u # t
          BY <2>1, <4>1, <5>2
        <5> QED
          BY <5>1, <5>2
      <4> QED
        BY <4>1, <4>2 DEF Unreversed
    <3>2. Unreversed' \ crossed' \subseteq Unreversed \ crossed
      BY <2>1, <3>1
    <3> QED
      BY <1>6, <3>2 DEF DeskInv, VoidsTell
  <2> QED
    BY <1>2, <1>6, <1>10, <1>11, <2>2, <2>7, <2>8, MpesaKeeps
<1> QED
  BY <1>8, <1>9

LEMMA OtherSaleKeeps ==
    ASSUME DeskInv, NEW t \in Sale, OtherSale(t)
    PROVE  DeskInv'
<1> USE DEF docs, ledger, history
<1>1. PICK b \in Basket, c \in Customer :
          /\ b.method # "cash"
          /\ b.method = "credit" => WithinLimit(c, b.total)
          /\ customer' = [customer EXCEPT
                ![c].balance = IF b.method = "credit" THEN @ + b.total ELSE @,
                ![c].wallet = IF b.method = "store_credit" THEN @ - b.total ELSE @]
          /\ IF b.method = "mpesa"
             THEN /\ sale' = [sale EXCEPT ![t] = NewSale(b, None, None, "pending")]
                  /\ UNCHANGED journal
             ELSE /\ Postable(DOMAIN SaleLines(b), UtcDay(time))
                  /\ sale' = [sale EXCEPT ![t] = NewSale(b, None, c, "completed")]
                  /\ Post("transaction", t, UtcDay(time), SaleLines(b))
  BY DEF OtherSale
<1>2. /\ UNCHANGED <<session, payment, voucher, inactive, pending, period, handler, time, history>>
      /\ sale[t].status = "none"
  BY DEF OtherSale, IsNext
<1>3. b \in BasketRow /\ b.total \in Nat
  BY CashDeskAssumption DEF BasketRow
<1>4. PICK row : row = IF b.method = "mpesa" THEN NewSale(b, None, None, "pending")
                       ELSE NewSale(b, None, c, "completed")
  OBVIOUS
<1>5. /\ row \in SaleRow /\ row.basket = b /\ row.session = None /\ row.done = time
      /\ row.customer = (IF b.method = "mpesa" THEN None ELSE c)
      /\ row.status = (IF b.method = "mpesa" THEN "pending" ELSE "completed")
  BY <1>3, <1>4 DEF NewSale, SaleRow, DeskInv, TypeOK
<1>6. sale' = [sale EXCEPT ![t] = row]
  BY <1>1, <1>4
<1>7. /\ \A d \in Customer \ {c} : customer'[d] = customer[d]
      /\ customer'[c].balance = IF b.method = "credit" THEN customer[c].balance + b.total
                                ELSE customer[c].balance
      /\ customer'[c].wallet = IF b.method = "store_credit" THEN customer[c].wallet - b.total
                               ELSE customer[c].wallet
      /\ customer' \in [Customer -> CustomerRow]
  <2>1. PICK x : x = IF b.method = "credit" THEN customer[c].balance + b.total ELSE customer[c].balance
    OBVIOUS
  <2>2. PICK y : y = IF b.method = "store_credit" THEN customer[c].wallet - b.total ELSE customer[c].wallet
    OBVIOUS
  <2>3. PICK was : was = customer[c]
    OBVIOUS
  <2>4. was \in CustomerRow /\ x \in Int /\ y \in Int
    BY <1>3, <2>1, <2>2, <2>3 DEF DeskInv, TypeOK, CustomerRow
  <2>5. PICK mid : mid = [customer EXCEPT ![c] = [was EXCEPT !.balance = x]]
    OBVIOUS
  <2>6. /\ mid \in [Customer -> CustomerRow] /\ mid[c].balance = x /\ mid[c].wallet = was.wallet
        /\ \A d \in Customer \ {c} : mid[d] = customer[d]
    BY <2>4, <2>5 DEF DeskInv, TypeOK, CustomerRow
  <2>7. customer' = [mid EXCEPT ![c].wallet = IF b.method = "store_credit" THEN @ - b.total ELSE @]
    BY <1>1, <2>1, <2>3, <2>5
  <2>8. customer' = [mid EXCEPT ![c] = [mid[c] EXCEPT !.wallet = y]]
    BY <2>2, <2>3, <2>6, <2>7
  <2>9. mid[c] \in CustomerRow
    BY <2>6
  <2>10. PICK new : new = [mid[c] EXCEPT !.wallet = y]
    OBVIOUS
  <2>11. new \in CustomerRow /\ new.balance = x /\ new.wallet = y
    BY <2>4, <2>6, <2>9, <2>10 DEF CustomerRow
  <2>12. /\ customer'[c] = new /\ customer' \in [Customer -> CustomerRow]
         /\ \A d \in Customer \ {c} : customer'[d] = customer[d]
    BY <2>6, <2>8, <2>10, <2>11
  <2> QED
    BY <2>1, <2>2, <2>11, <2>12
<1>8. TypeOK'
  BY <1>2, <1>5, <1>6, <1>7 DEF DeskInv, TypeOK
<1>9. /\ sale'[t] = row /\ \A u \in Sale \ {t} : sale'[u] = sale[u]
  BY <1>6 DEF DeskInv, TypeOK
<1>10. DocsStay /\ PeriodsStay
  BY <1>2, <1>5, <1>9 DEF DocsStay, PeriodsStay
<1>11. SaleShape(row)' /\ sale[t].session = None /\ sale[t].customer = None
  <2>1. sale[t] = NoSale
    BY <1>2 DEF DeskInv, SaleBooks, SaleShape
  <2> QED
    BY <1>1, <1>3, <1>5, <2>1 DEF SaleShape, NoSale, BasketRow
<1>12. /\ JournalSound' /\ SaleBooks' /\ VoidsTell'
       /\ \/ journal' = journal
          \/ \E n : /\ n \notin journal /\ journal' = journal \cup {n} /\ n.type = "transaction"
                    /\ n.ref = t /\ DOMAIN n.lines \cap inactive = {}
  <2>1. CASE b.method = "mpesa"
    <3>1. journal' = journal /\ time <= time'
      BY <1>1, <1>2, <2>1 DEF DeskInv, TypeOK
    <3>2. JournalSound'
      BY <1>8, <3>1, JournalStays DEF DeskInv
    <3>3. ASSUME NEW u \in Sale
          PROVE  /\ SaleShape(sale[u])' /\ (sale'[u].status = "completed" => Has("transaction", u)')
                 /\ u \in crossed' => /\ sale'[u].status \in {"completed", "voided"}
                                      /\ sale'[u].basket.method = "mpesa"
                 /\ u \notin crossed' => \A e, f \in Originals(u)' : e = f
      <4>3. Originals(u)' = Originals(u) /\ crossed' = crossed
        BY <1>2, <3>1 DEF Originals
      <4>1. CASE u = t
        <5>1. SaleShape(sale[u])'
          BY <1>9, <1>11, <4>1 DEF SaleShape
        <5>2. u \notin crossed /\ \A e, f \in Originals(u) : e = f
          BY <1>2, <4>1 DEF DeskInv, SaleBooks
        <5> QED
          BY <1>5, <1>9, <2>1, <4>1, <4>3, <5>1, <5>2
      <4>2. CASE u # t
        <5>1. /\ SaleShape(sale[u]) /\ (sale[u].status = "completed" => Has("transaction", u))
              /\ u \in crossed => /\ sale[u].status \in {"completed", "voided"}
                                  /\ sale[u].basket.method = "mpesa"
              /\ u \notin crossed => \A e, f \in Originals(u) : e = f
          BY DEF DeskInv, SaleBooks
        <5>2. sale'[u] = sale[u]
          BY <1>9, <4>2
        <5>3. SaleShape(sale[u])'
          BY <1>10, <5>1, <5>2 DEF SaleShape, DocsStay
        <5> QED
          BY <3>1, <4>3, <5>1, <5>2, <5>3 DEF Has
      <4> QED
        BY <4>1, <4>2
    <3>4. ASSUME NEW e \in journal', e.type \in SaleTypes PROVE OfSale(e)'
      <4>1. OfSale(e)
        BY <3>1, <3>4 DEF DeskInv, SaleBooks, SaleTypes
      <4>2. e.ref # t
        BY <1>2, <4>1 DEF OfSale
      <4> QED
        BY <1>2, <1>9, <3>1, <4>1, <4>2 DEF OfSale, Has
    <3>5. SaleBooks'
      BY <3>3, <3>4 DEF SaleBooks, SaleTypes
    <3>6. Unreversed' \subseteq Unreversed
      BY <1>5, <1>9, <2>1, <3>1 DEF Unreversed, Originals
    <3>7. VoidsTell'
      BY <1>2, <3>6 DEF DeskInv, VoidsTell
    <3> QED
      BY <3>1, <3>2, <3>5, <3>7
  <2>2. CASE b.method # "mpesa"
    BY <1>1, <1>2, <1>5, <1>6, <1>8, <1>10, <1>11, <2>2, SaleCompleted
  <2> QED
    BY <2>1, <2>2
<1>13. /\ Adds(EntryType \ SessionTypes) /\ Adds(EntryType \ {"customer_payment"})
       /\ Adds(EntryType \ VoucherTypes)
       /\ journal \subseteq journal'
  BY <1>12 DEF Adds, EntryType, SessionTypes, VoucherTypes
<1>14. SessionBooks' /\ PaymentBooks' /\ VoucherBooks'
  BY <1>2, <1>13, SessionsStay, PaymentsStay, VouchersStay DEF DeskInv
<1>15. TillsTell'
  BY <1>2, <1>5, <1>8, <1>9, <1>11, TillsPass DEF DeskInv
<1>16. CustomersTell'
  <2>1. \A d \in Customer : \A m : /\ ChargedShare(row, d, m) = (IF d = c /\ b.method = m /\ m # "mpesa"
                                                                 THEN b.total ELSE 0)
                                   /\ ChargedShare(sale[t], d, m) = 0
    BY <1>2, <1>5, CashDeskAssumption DEF ChargedShare
  <2>2. \A d, m : /\ Charged(sale, d, m)' = Charged(sale, d, m) + ChargedShare(row, d, m)
                                               - ChargedShare(sale[t], d, m)
                  /\ Charged(sale, d, m) \in Int
    BY <1>8, <1>9, SumsAfter DEF DeskInv
  <2>3. \A d \in Customer, m \in {"credit", "store_credit"} :
           Charged(sale, d, m)' = Charged(sale, d, m) + (IF d = c /\ b.method = m THEN b.total ELSE 0)
    <3> HIDE DEF Charged, ChargedShare
    <3> QED
      BY <1>3, <2>1, <2>2
  <2>4. \A d \in Customer : PaidBy(payment, d)' = PaidBy(payment, d) /\ PaidBy(payment, d) \in Int
    <3>1. \A d \in Customer : PaidBy(payment, d) \in Int
      BY PaidInt DEF DeskInv
    <3> QED
      BY <1>2, <3>1 DEF PaidBy, SumOver
  <2> HIDE DEF Charged, PaidBy
  <2>5. ASSUME NEW d \in Customer, Limit > 0 PROVE customer'[d].balance <= Limit
    <3>1. customer[d].balance <= Limit
      BY <2>5 DEF DeskInv, CustomersTell
    <3>2. CASE d = c /\ b.method = "credit"
      BY <1>1, <1>7, <2>5, <3>2, CashDeskAssumption DEF WithinLimit
    <3>3. CASE ~(d = c /\ b.method = "credit")
      BY <1>7, <3>1, <3>3
    <3> QED
      BY <3>2, <3>3
  <2>6. ASSUME NEW d \in Customer, d \notin edited'
        PROVE  /\ customer'[d].balance = Charged(sale, d, "credit")' - PaidBy(payment, d)' + waived'[d]
               /\ customer'[d].wallet = Wallet - Charged(sale, d, "store_credit")'
    <3>1. /\ customer[d].balance = Charged(sale, d, "credit") - PaidBy(payment, d) + waived[d]
          /\ customer[d].wallet = Wallet - Charged(sale, d, "store_credit")
      BY <1>2, <2>6 DEF DeskInv, CustomersTell
    <3>2. /\ waived[d] \in Int /\ Charged(sale, d, "credit") \in Int
          /\ Charged(sale, d, "store_credit") \in Int /\ Wallet \in Int
      BY <2>2, CashDeskAssumption DEF DeskInv, TypeOK
    <3>3. /\ customer'[d].balance = customer[d].balance
                                       + (IF d = c /\ b.method = "credit" THEN b.total ELSE 0)
          /\ customer'[d].wallet = customer[d].wallet
                                       - (IF d = c /\ b.method = "store_credit" THEN b.total ELSE 0)
      <4>1. customer[d].balance \in Int /\ customer[d].wallet \in Int
        BY DEF DeskInv, TypeOK, CustomerRow
      <4> QED
        BY <1>3, <1>7, <4>1
    <3> QED
      BY <1>2, <1>3, <2>3, <2>4, <3>1, <3>2, <3>3
  <2> QED
    BY <2>5, <2>6 DEF CustomersTell
<1>17. HiddenTell'
  <2>1. \/ journal' = journal
        \/ \E n : journal' = journal \cup {n} /\ DOMAIN n.lines \cap inactive = {}
    BY <1>12
  <2> QED
    BY <1>2, <1>10, <2>1, HiddenStays DEF DeskInv
<1>18. HandlersKnow'
  <2>1. SettledStay
    BY <1>2, <1>12, SettledStays
  <2> QED
    BY <1>2, <1>10, <1>12, <1>13, <2>1, HandlersStay DEF DeskInv
<1> QED
  BY <1>8, <1>12, <1>14, <1>15, <1>16, <1>17, <1>18 DEF DeskInv

-----------------------------------------------------------------------------
(* Voiding a sale.                                                         *)

LEMMA VoidKeeps ==
    ASSUME DeskInv, NEW h \in Handler, VoidCommit(h)
    PROVE  DeskInv'
<1> USE DEF docs, ledger, history
<1>1. PICK t : t = handler[h].on
  OBVIOUS
<1>30. PICK seen : seen = handler[h].seen
  OBVIOUS
<1>2. /\ t \in Sale /\ sale[t].status # "none"
      /\ sale[t].basket.method # "mpesa" => seen = Cardinality(Originals(t))
  <2> HIDE DEF Has, Originals
  <2> QED
    BY <1>1, <1>30 DEF VoidCommit, DeskInv, HandlersKnow, Knows
<1>3. PICK old : old = sale[t]
  OBVIOUS
<1>4. old \in SaleRow /\ SaleShape(old) /\ old.status # "none"
  BY <1>2, <1>3 DEF DeskInv, TypeOK, SaleBooks
<1>5. PICK b : b = old.basket
  OBVIOUS
<1>6. PICK s : s = old.session
  OBVIOUS
<1>7. PICK c : c = old.customer
  OBVIOUS
<1>8. /\ sale' = [sale EXCEPT ![t].status = "voided"]
      /\ VoidEntry(t, seen)
      /\ crossed' = crossed \cup (IF Cardinality(Originals(t)) = seen THEN {} ELSE {t})
      /\ IF b.method = "cash"
         THEN /\ session' = VoidedSession(s, b)
              /\ late' = late \cup (IF session[s].status = "open" THEN {} ELSE {s})
              /\ raced' = raced \cup (IF old.status = "voided" THEN {s} ELSE {})
         ELSE UNCHANGED <<session, late, raced>>
      /\ IF c # None
         THEN /\ customer' = [customer EXCEPT
                    ![c].balance = IF b.method = "credit" THEN Floored(c, b.total) ELSE @,
                    ![c].wallet = IF b.method = "store_credit" THEN @ + b.total ELSE @]
              /\ edited' = edited \cup (IF old.status = "voided" THEN {c} ELSE {})
              /\ waived' = IF b.method # "credit" THEN waived
                           ELSE [waived EXCEPT ![c] = @ + Most(0, b.total - customer[c].balance)]
         ELSE UNCHANGED <<customer, edited, waived>>
  BY <1>1, <1>3, <1>5, <1>6, <1>7, <1>30 DEF VoidCommit
<1>9. /\ UNCHANGED <<payment, voucher, inactive, pending, period, time>>
      /\ handler' = [handler EXCEPT ![h] = Idle]
  BY DEF VoidCommit, Finish
<1>10. /\ b \in BasketRow /\ b.total \in Nat /\ b.change \in Nat
       /\ old.status = "pending" => b.method = "mpesa"
       /\ b.method = "cash" => c = None /\ s \in Session /\ session[s].status # "none"
       /\ b.method # "cash" => s = None
       /\ b.method = "mpesa" => c = None
       /\ b.method \notin {"cash", "mpesa"} => c \in Customer
       /\ b.method \in {"cash", "mpesa", "credit", "store_credit"}
       /\ old.status \in {"pending", "completed", "voided"}
  BY <1>4, <1>5, <1>6, <1>7 DEF SaleShape, SaleRow, BasketRow
<1>11. PICK row : row = [old EXCEPT !.status = "voided"]
  OBVIOUS
<1>12. /\ row \in SaleRow /\ row.status = "voided" /\ row.basket = b /\ row.session = s
       /\ row.customer = c /\ row.done = old.done
  BY <1>4, <1>5, <1>6, <1>7, <1>11 DEF SaleRow
<1>13. /\ sale' = [sale EXCEPT ![t] = row]
       /\ sale'[t] = row /\ \A u \in Sale \ {t} : sale'[u] = sale[u]
       /\ sale' \in [Sale -> SaleRow]
  <2>1. sale' = [sale EXCEPT ![t] = row]
    BY <1>3, <1>8, <1>11
  <2> QED
    BY <1>2, <1>12, <2>1 DEF DeskInv, TypeOK
\* The session of a cash sale gives back what it had of it.
<1>14. /\ session' \in [Session -> SessionRow]
       /\ \A u \in Session : /\ session'[u].status = session[u].status
                             /\ session'[u].float = session[u].float
                             /\ session'[u].counted = session[u].counted
                             /\ session'[u].variance = session[u].variance
                             /\ session'[u].expected =
                                   session[u].expected
                                      - (IF b.method = "cash" /\ u = s THEN b.total - b.change ELSE 0)
  <2>0. \A u \in Session : session[u].expected \in Int
    BY DEF DeskInv, TypeOK, SessionRow
  <2>1. CASE b.method = "cash"
    <3>1. PICK x : x = session[s].expected - (b.total - b.change)
      OBVIOUS
    <3>2. PICK was : was = session[s]
      OBVIOUS
    <3>3. session' = [session EXCEPT ![s] = [was EXCEPT !.expected = x]]
      BY <1>8, <2>1, <3>1, <3>2 DEF VoidedSession
    <3>4. was \in SessionRow /\ x \in Int /\ s \in Session
      BY <1>10, <2>0, <2>1, <3>1, <3>2 DEF DeskInv, TypeOK
    <3>5. PICK new : new = [was EXCEPT !.expected = x]
      OBVIOUS
    <3>6. /\ new \in SessionRow /\ new.status = was.status /\ new.float = was.float
          /\ new.counted = was.counted /\ new.variance = was.variance /\ new.expected = x
      BY <3>4, <3>5 DEF SessionRow
    <3>7. /\ session'[s] = new /\ session' \in [Session -> SessionRow]
          /\ \A u \in Session \ {s} : session'[u] = session[u]
      BY <3>3, <3>4, <3>5, <3>6 DEF DeskInv, TypeOK
    <3>8. ASSUME NEW u \in Session
          PROVE  /\ session'[u].status = session[u].status /\ session'[u].float = session[u].float
                 /\ session'[u].counted = session[u].counted
                 /\ session'[u].variance = session[u].variance
                 /\ session'[u].expected = session[u].expected
                                             - (IF u = s THEN b.total - b.change ELSE 0)
      BY <2>0, <3>1, <3>2, <3>6, <3>7
    <3> QED
      BY <2>1, <3>7, <3>8
  <2>2. CASE b.method # "cash"
    BY <1>8, <2>0, <2>2 DEF DeskInv, TypeOK
  <2> QED
    BY <2>1, <2>2
\* The customer gets the sale back, on the balance or in the wallet.
<1>15. /\ customer' \in [Customer -> CustomerRow] /\ waived' \in [Customer -> Int]
       /\ \A d \in Customer :
             /\ d # c \/ b.method # "credit" =>
                   customer'[d].balance = customer[d].balance /\ waived'[d] = waived[d]
             /\ d # c \/ b.method # "store_credit" => customer'[d].wallet = customer[d].wallet
             /\ d = c /\ b.method = "credit" =>
                   /\ customer'[d].balance = Most(0, customer[d].balance - b.total)
                   /\ waived'[d] = waived[d] + Most(0, b.total - customer[d].balance)
             /\ d = c /\ b.method = "store_credit" =>
                   customer'[d].wallet = customer[d].wallet + b.total
  <2>1. CASE c = None
    BY <1>8, <1>10, <2>1, CashDeskAssumption DEF DeskInv, TypeOK
  <2>2. CASE c # None
    <3>1. c \in Customer
      BY <1>10, <2>2
    <3>2. PICK was : was = customer[c]
      OBVIOUS
    <3>3. PICK x : x = IF b.method = "credit" THEN Floored(c, b.total) ELSE customer[c].balance
      OBVIOUS
    <3>4. PICK y : y = IF b.method = "store_credit" THEN customer[c].wallet + b.total
                       ELSE customer[c].wallet
      OBVIOUS
    <3>5. /\ was \in CustomerRow /\ x \in Int /\ y \in Int
          /\ Most(0, b.total - customer[c].balance) \in Int
      BY <1>10, <3>1, <3>2, <3>3, <3>4 DEF DeskInv, TypeOK, CustomerRow, Floored, Most
    <3>6. PICK mid : mid = [customer EXCEPT ![c] = [was EXCEPT !.balance = x]]
      OBVIOUS
    <3>7. /\ mid \in [Customer -> CustomerRow] /\ mid[c].balance = x /\ mid[c].wallet = was.wallet
          /\ \A d \in Customer \ {c} : mid[d] = customer[d]
      BY <3>1, <3>5, <3>6 DEF DeskInv, TypeOK, CustomerRow
    <3>8. customer' = [mid EXCEPT ![c].wallet = IF b.method = "store_credit" THEN @ + b.total ELSE @]
      BY <1>8, <2>2, <3>2, <3>3, <3>6
    <3>9. customer' = [mid EXCEPT ![c] = [mid[c] EXCEPT !.wallet = y]]
      BY <3>2, <3>4, <3>7, <3>8
    <3>10. PICK new : new = [mid[c] EXCEPT !.wallet = y]
      OBVIOUS
    <3>11. new \in CustomerRow /\ new.balance = x /\ new.wallet = y
      BY <3>1, <3>5, <3>7, <3>10 DEF CustomerRow
    <3>12. /\ customer'[c] = new /\ customer' \in [Customer -> CustomerRow]
           /\ \A d \in Customer \ {c} : customer'[d] = customer[d]
      BY <3>1, <3>7, <3>9, <3>10, <3>11
    <3>13. waived' = IF b.method # "credit" THEN waived
                     ELSE [waived EXCEPT ![c] = @ + Most(0, b.total - customer[c].balance)]
      BY <1>8, <2>2
    <3>14. /\ waived' \in [Customer -> Int]
           /\ \A d \in Customer : waived'[d] = waived[d] + (IF d = c /\ b.method = "credit"
                                                THEN Most(0, b.total - customer[c].balance) ELSE 0)
      BY <3>1, <3>5, <3>13 DEF DeskInv, TypeOK
    <3>15. \A d \in Customer : waived[d] \in Int
      BY DEF DeskInv, TypeOK
    <3> HIDE DEF Most
    <3> QED
      BY <3>3, <3>4, <3>11, <3>12, <3>14, <3>15 DEF Floored
  <2> QED
    BY <2>1, <2>2
<1>16. TypeOK'
  BY <1>2, <1>8, <1>9, <1>13, <1>14, <1>15 DEF DeskInv, TypeOK
<1>17. DocsStay /\ PeriodsStay
  BY <1>3, <1>5, <1>9, <1>12, <1>13, <1>14 DEF DocsStay, PeriodsStay
<1>18. /\ raced \subseteq raced' /\ late \subseteq late' /\ edited \subseteq edited'
       /\ crossed \subseteq crossed' /\ \A u \in Sale \ {t} : u \in crossed' => u \in crossed
       /\ t \in crossed' => t \in crossed \/ b.method = "mpesa"
  BY <1>2, <1>3, <1>5, <1>8
\* The journal: nothing, because there is nothing to reverse or a period is
\* closed, or the reversal.
<1>19. \/ /\ journal' = journal
          /\ \/ seen = 0 \/ About(journal, {"void"}, {t}) # {}
             \/ FALSE \in Verdicts(Today)
       \/ \E e \in journal : /\ e.type = "transaction" /\ e.ref = t /\ ~Has("void", t)
                             /\ Post("void", t, Today, Reversal(e.lines))
  BY <1>8 DEF VoidEntry, Originals, About, Has
<1>20. /\ JournalSound'
       /\ \/ /\ journal' = journal
             /\ \/ seen = 0 \/ About(journal, {"void"}, {t}) # {}
                \/ FALSE \in Verdicts(Today)
          \/ \E n : /\ n \notin journal /\ journal' = journal \cup {n}
                    /\ n.type = "void" /\ n.ref = t /\ n.lines = Reversal(SaleLines(b))
                    /\ Has("transaction", t) /\ ~Has("void", t)
                    /\ DOMAIN n.lines \subseteq Touched(journal)
  <2>1. CASE journal' = journal
    <3>1. time <= time'
      BY <1>9 DEF DeskInv, TypeOK
    <3>2. JournalSound'
      BY <1>16, <2>1, <3>1, JournalStays DEF DeskInv
    <3>3. ASSUME NEW e \in journal, e.type = "transaction", e.ref = t, ~Has("void", t),
                 Post("void", t, Today, Reversal(e.lines))
          PROVE  FALSE
      <4>1. Today \in Day /\ Today <= Today /\ "void" \in EntryType
        BY TodayIsDay DEF DeskInv, EntryType
      <4>3. IsLines(e.lines)
        BY EntrySound DEF DeskInv
      <4>4. IsLines(Reversal(e.lines))
        BY <4>3, Reversed
      <4>2. \E n : n \notin journal /\ journal' = journal \cup {n}
        BY <1>9, <3>3, <4>1, <4>4, Posted DEF DeskInv
      <4> QED
        BY <2>1, <4>2
    <3> QED
      BY <1>19, <2>1, <3>2, <3>3
  <2>2. ASSUME NEW e \in journal, e.type = "transaction", e.ref = t, ~Has("void", t),
               Post("void", t, Today, Reversal(e.lines))
        PROVE  /\ JournalSound'
               /\ \E n : /\ n \notin journal /\ journal' = journal \cup {n}
                         /\ n.type = "void" /\ n.ref = t /\ n.lines = Reversal(SaleLines(b))
                         /\ Has("transaction", t) /\ ~Has("void", t)
                         /\ DOMAIN n.lines \subseteq Touched(journal)
    <3>1. e.lines = SaleLines(b)
      BY <1>3, <1>5, <2>2 DEF DeskInv, SaleBooks, OfSale
    <3>2. IsLines(Reversal(e.lines)) /\ DOMAIN Reversal(e.lines) = DOMAIN e.lines
      BY EntrySound, Reversed DEF DeskInv
    <3>3. Today \in Day /\ Today <= Today /\ "void" \in EntryType
      BY TodayIsDay DEF DeskInv, EntryType
    <3>4. /\ JournalSound'
          /\ \E n : /\ n \notin journal /\ journal' = journal \cup {n} /\ n.type = "void"
                    /\ n.ref = t /\ n.day = Today /\ n.lines = Reversal(e.lines)
      BY <1>9, <2>2, <3>2, <3>3, Posted DEF DeskInv
    <3>5. DOMAIN e.lines \subseteq Touched(journal)
      BY DEF Touched
    <3>6. Has("transaction", t)
      BY <2>2 DEF Has
    <3> QED
      BY <2>2, <3>1, <3>2, <3>4, <3>5, <3>6
  <2> QED
    BY <1>19, <2>1, <2>2
<1>21. /\ Adds(EntryType \ SessionTypes) /\ Adds(EntryType \ {"customer_payment"})
       /\ Adds(EntryType \ VoucherTypes) /\ Adds(EntryType \ {"transaction"})
       /\ journal \subseteq journal'
  BY <1>20 DEF Adds, EntryType, SessionTypes, VoucherTypes
<1>22. SessionBooks' /\ PaymentBooks' /\ VoucherBooks'
  BY <1>9, <1>14, <1>18, <1>21, SessionsStay, PaymentsStay, VouchersStay DEF DeskInv
<1>23. SaleBooks'
  <2>0. \A type, ref : Has(type, ref) => Has(type, ref)'
    BY <1>21 DEF Has
  <2>1. ASSUME NEW e \in journal', e.type \in SaleTypes PROVE OfSale(e)'
    <3>1. CASE e \in journal
      <4>1. OfSale(e)
        BY <2>1, <3>1 DEF DeskInv, SaleBooks, SaleTypes
      <4>2. CASE e.ref = t
        BY <1>3, <1>5, <1>12, <1>13, <1>18, <2>0, <4>1, <4>2 DEF OfSale
      <4>3. CASE e.ref # t
        BY <1>13, <1>18, <2>0, <4>1, <4>3 DEF OfSale
      <4> QED
        BY <4>2, <4>3
    <3>2. CASE e \notin journal
      BY <1>2, <1>12, <1>13, <1>20, <2>0, <3>2 DEF OfSale
    <3> QED
      BY <3>1, <3>2
  <2>2. ASSUME NEW u \in Sale
        PROVE  /\ SaleShape(sale[u])' /\ (sale'[u].status = "completed" => Has("transaction", u)')
               /\ u \in crossed' => /\ sale'[u].status \in {"completed", "voided"}
                                    /\ sale'[u].basket.method = "mpesa"
               /\ u \notin crossed' => \A e, f \in Originals(u)' : e = f
    <3>1. /\ SaleShape(sale[u]) /\ (sale[u].status = "completed" => Has("transaction", u))
          /\ u \in crossed => /\ sale[u].status \in {"completed", "voided"}
                              /\ sale[u].basket.method = "mpesa"
          /\ u \notin crossed => \A e, f \in Originals(u) : e = f
      BY DEF DeskInv, SaleBooks
    <3>4. Originals(u)' = Originals(u)
      BY <1>20 DEF Originals, About
    <3>2. CASE u = t
      <4>1. SaleShape(sale[u])'
        BY <1>3, <1>4, <1>5, <1>6, <1>7, <1>12, <1>13, <1>14, <3>2 DEF SaleShape
      <4> QED
        BY <1>3, <1>5, <1>12, <1>13, <1>18, <3>1, <3>2, <3>4, <4>1
    <3>3. CASE u # t
      <4>1. sale'[u] = sale[u]
        BY <1>13, <3>3
      <4>2. SaleShape(sale[u])'
        BY <1>17, <3>1, <4>1 DEF SaleShape, DocsStay
      <4> QED
        BY <1>18, <2>0, <3>1, <3>3, <3>4, <4>1, <4>2
    <3> QED
      BY <3>2, <3>3
  <2> QED
    BY <2>1, <2>2 DEF SaleBooks, SaleTypes
<1>29. /\ TypeOK /\ TypeOK' /\ t \in Sale /\ old = sale[t] /\ row = sale'[t]
       /\ \A u \in Sale \ {t} : sale'[u] = sale[u]
  BY <1>2, <1>3, <1>13, <1>16 DEF DeskInv
<1>24. TillsTell'
  <2>1. CASE b.method # "cash"
    BY <1>2, <1>3, <1>6, <1>8, <1>10, <1>12, <1>13, <1>16, <1>18, <2>1, TillsPass DEF DeskInv
  <2>2. CASE b.method = "cash"
    <3>1. \A u : /\ Tendered(sale, u)' = Tendered(sale, u) + TillShare(row, u) - TillShare(old, u)
                 /\ Tendered(sale, u) \in Int
      BY <1>29, SumsAfter
    <3>2. \A u \in Session : /\ TillShare(row, u) = 0
                             /\ TillShare(old, u) = IF old.status = "completed" /\ u = s
                                                    THEN b.total - b.change ELSE 0
      BY <1>5, <1>6, <1>12 DEF TillShare
    <3>3. "open" \notin raced' => \A q, r \in OpenSessions' : q = r
      BY <1>14, <1>18 DEF OpenSessions, DeskInv, TillsTell
    <3>4. b.total - b.change \in Int /\ \A u \in Session :
             /\ session[u].float \in Int /\ session[u].expected \in Int
             /\ session[u].counted \in Int /\ session[u].variance \in Int
      BY <1>10 DEF DeskInv, TypeOK, SessionRow
    <3>5. old.status # "completed" => s \in raced'
      BY <1>8, <1>10, <2>2
    <3> HIDE DEF Tendered, TillShare
    <3>6. ASSUME NEW u \in Session, u \notin raced'
          PROVE  session'[u].expected = session'[u].float + Tendered(sale, u)'
      <4>1. session[u].expected = session[u].float + Tendered(sale, u)
        BY <1>18, <3>6 DEF DeskInv, TillsTell
      <4>2. CASE u = s
        <5>1. old.status = "completed"
          BY <3>5, <3>6, <4>2
        <5> QED
          BY <1>14, <2>2, <3>1, <3>2, <3>4, <4>1, <4>2, <5>1
      <4>3. CASE u # s
        BY <1>14, <3>1, <3>2, <3>4, <4>1, <4>3
      <4> QED
        BY <4>2, <4>3
    <3>7. ASSUME NEW u \in Session, session'[u].status = "closed", u \notin raced' \cup late'
          PROVE  session'[u].variance = session'[u].counted - (session'[u].float + Tendered(sale, u)')
      <4>1. u # s
        BY <1>8, <1>14, <2>2, <3>7
      <4>2. Tendered(sale, u)' = Tendered(sale, u)
        BY <3>1, <3>2, <4>1
      <4>3. session[u].variance = session[u].counted - (session[u].float + Tendered(sale, u))
        BY <1>14, <1>18, <3>7 DEF DeskInv, TillsTell
      <4> QED
        BY <1>14, <4>2, <4>3
    <3> QED
      BY <3>3, <3>6, <3>7 DEF TillsTell
  <2> QED
    BY <2>1, <2>2
<1>25. CustomersTell'
  <2>1. \A d, m : /\ Charged(sale, d, m)' = Charged(sale, d, m) + ChargedShare(row, d, m)
                                               - ChargedShare(old, d, m)
                  /\ Charged(sale, d, m) \in Int
    BY <1>29, SumsAfter
  <2>2. \A d \in Customer : \A m : /\ ChargedShare(row, d, m) = 0
                                   /\ ChargedShare(old, d, m) =
                                         IF old.status = "completed" /\ d = c /\ b.method = m
                                         THEN b.total ELSE 0
    BY <1>5, <1>7, <1>12 DEF ChargedShare
  <2>3. \A d : PaidBy(payment, d)' = PaidBy(payment, d) /\ PaidBy(payment, d) \in Int
    BY <1>9, PaidInt DEF DeskInv, PaidBy, SumOver
  <2>4. \A d \in Customer : customer[d].balance \in Int /\ customer[d].wallet \in Int
                            /\ waived[d] \in Int
    BY DEF DeskInv, TypeOK, CustomerRow
  <2> HIDE DEF Charged, PaidBy, ChargedShare
  <2>5. ASSUME NEW d \in Customer, Limit > 0 PROVE customer'[d].balance <= Limit
    <3>1. customer[d].balance <= Limit
      BY <2>5 DEF DeskInv, CustomersTell
    <3>2. CASE d = c /\ b.method = "credit"
      BY <1>10, <1>15, <2>4, <2>5, <3>1, <3>2, CashDeskAssumption DEF Most
    <3>3. CASE ~(d = c /\ b.method = "credit")
      BY <1>15, <3>1, <3>3
    <3> QED
      BY <3>2, <3>3
  <2>6. ASSUME NEW d \in Customer, d \notin edited'
        PROVE  /\ customer'[d].balance = Charged(sale, d, "credit")' - PaidBy(payment, d)' + waived'[d]
               /\ customer'[d].wallet = Wallet - Charged(sale, d, "store_credit")'
    <3>1. /\ customer[d].balance = Charged(sale, d, "credit") - PaidBy(payment, d) + waived[d]
          /\ customer[d].wallet = Wallet - Charged(sale, d, "store_credit")
      BY <1>18, <2>6 DEF DeskInv, CustomersTell
    <3>2. Wallet \in Int /\ b.total \in Int
      BY <1>10, CashDeskAssumption
    <3>3. d = c /\ b.method \in {"credit", "store_credit"} => old.status = "completed"
      BY <1>8, <1>10, <2>6, CashDeskAssumption
    <3>4. CASE d = c /\ b.method = "credit"
      <4>1. /\ Charged(sale, d, "credit")' = Charged(sale, d, "credit") - b.total
            /\ Charged(sale, d, "store_credit")' = Charged(sale, d, "store_credit")
        BY <2>1, <2>2, <3>2, <3>3, <3>4
      <4>2. customer'[d].balance - waived'[d] = customer[d].balance - b.total - waived[d]
            /\ customer'[d].balance \in Int /\ waived'[d] \in Int
        BY <1>15, <2>4, <3>2, <3>4 DEF Most
      <4>3. customer'[d].wallet = customer[d].wallet
        BY <1>15, <3>4
      <4> QED
        BY <2>1, <2>3, <2>4, <3>1, <3>2, <4>1, <4>2, <4>3
    <3>5. CASE d = c /\ b.method = "store_credit"
      <4>1. /\ Charged(sale, d, "store_credit")' = Charged(sale, d, "store_credit") - b.total
            /\ Charged(sale, d, "credit")' = Charged(sale, d, "credit")
        BY <2>1, <2>2, <3>2, <3>3, <3>5
      <4>2. /\ customer'[d].balance = customer[d].balance /\ waived'[d] = waived[d]
            /\ customer'[d].wallet = customer[d].wallet + b.total
        BY <1>15, <3>5
      <4> QED
        BY <2>1, <2>3, <2>4, <3>1, <3>2, <4>1, <4>2
    <3>6. CASE ~(d = c /\ b.method \in {"credit", "store_credit"})
      <4>1. /\ Charged(sale, d, "store_credit")' = Charged(sale, d, "store_credit")
            /\ Charged(sale, d, "credit")' = Charged(sale, d, "credit")
        BY <2>1, <2>2, <3>6
      <4>2. /\ customer'[d].balance = customer[d].balance /\ waived'[d] = waived[d]
            /\ customer'[d].wallet = customer[d].wallet
        BY <1>15, <3>6
      <4> QED
        BY <2>3, <3>1, <4>1, <4>2
    <3> QED
      BY <3>4, <3>5, <3>6
  <2> QED
    BY <2>5, <2>6 DEF CustomersTell
<1>26. VoidsTell'
  <2>1. CASE journal' = journal /\ FALSE \in Verdicts(Today)
    <3>1. \E q \in Period : period[q].status \notin {"none", "open"}
      BY <2>1 DEF Verdicts
    <3> QED
      BY <1>9, <3>1 DEF VoidsTell
  <2>2. CASE ~(journal' = journal /\ FALSE \in Verdicts(Today))
    <3>1. ASSUME NEW u \in Unreversed', u \notin crossed' PROVE u \in Unreversed
      <4>1. CASE u = t
        <5>1. Originals(t)' # {} /\ About(journal, {"void"}, {t})' = {}
          BY <3>1, <4>1 DEF Unreversed
        <5>2. CASE journal' = journal
          <6>1. seen = 0
            BY <1>20, <2>2, <5>1, <5>2 DEF About
          <6>2. Cardinality(Originals(t)) = seen
            BY <1>8, <3>1, <4>1
          <6>3. Originals(t) \subseteq journal /\ Originals(t) # {}
            BY <5>1, <5>2 DEF Originals, About
          <6>4. IsFiniteSet(Originals(t))
            BY <6>3, FS_Subset DEF DeskInv, JournalSound
          <6> QED
            BY <6>1, <6>2, <6>3, <6>4, FS_EmptySet
        <5>3. CASE journal' # journal
          BY <1>20, <5>1, <5>3 DEF About
        <5> QED
          BY <5>2, <5>3
      <4>2. CASE u # t
        BY <1>13, <1>20, <3>1, <4>2 DEF Unreversed, Originals, About
      <4> QED
        BY <4>1, <4>2
    <3>2. Unreversed' \ crossed' \subseteq Unreversed \ crossed
      BY <1>18, <3>1
    <3> QED
      BY <1>9, <3>2 DEF DeskInv, VoidsTell
  <2> QED
    BY <2>1, <2>2
<1>27. HiddenTell'
  <2>1. \/ journal' = journal
        \/ \E n : journal' = journal \cup {n} /\ DOMAIN n.lines \subseteq Touched(journal)
    BY <1>20
  <2>2. \/ journal' = journal
        \/ \E n : /\ journal' = journal \cup {n}
                  /\ \A a \in DOMAIN n.lines \cap inactive : a \in Touched(journal)
    BY <2>1
  <2> QED
    BY <1>9, <1>17, <1>18, <2>2, HiddenStays DEF DeskInv
<1>28. HandlersKnow'
  BY <1>9, <1>17, <1>20, <1>21, HandlersStay DEF DeskInv
<1> QED
  BY <1>16, <1>20, <1>22, <1>23, <1>24, <1>25, <1>26, <1>27, <1>28 DEF DeskInv

-----------------------------------------------------------------------------
(* Customers.                                                              *)

LEMMA ChargedStays ==
    ASSUME TypeOK, sale' = sale, NEW c, NEW m
    PROVE  Charged(sale, c, m)' = Charged(sale, c, m) /\ Charged(sale, c, m) \in Int
<1>1. Charged(sale, c, m)' = Charged(sale, c, m)
  BY DEF Charged, CompletedIn, SumOver
<1>2. PICK T, f : /\ T = {t \in CompletedIn(sale, Sale) : sale[t].customer = c
                                                          /\ sale[t].basket.method = m}
                  /\ f = [t \in T |-> sale[t].basket.total]
  OBVIOUS
<1>3. IsFiniteSet(T) /\ \A t \in T : f[t] \in Int
  BY <1>2, CashDeskAssumption, FS_Subset DEF CompletedIn, TypeOK, SaleRow, BasketRow
<1>4. Charged(sale, c, m) = SumFunctionOnSet(f, T)
  BY <1>2 DEF Charged, SumOver
<1> QED
  BY <1>1, <1>3, <1>4, SumInt

LEMMA PayKeeps ==
    ASSUME DeskInv, NEW p \in Payment, Pay(p)
    PROVE  DeskInv'
<1> USE DEF docs, ledger, history
<1>1. PICK c \in Customer, a \in Amount, day \in Day :
          /\ a <= customer[c].balance
          /\ Postable({"1100", "1000"}, day)
          /\ payment' = [payment EXCEPT ![p] = [customer |-> c, amount |-> a]]
          /\ customer' = [customer EXCEPT ![c].balance = @ - a]
          /\ Post("customer_payment", p, day, PaymentLines(a))
  BY DEF Pay
<1>2. /\ UNCHANGED <<session, sale, voucher, inactive, pending, period, handler, time, history>>
      /\ payment[p] = NoPayment
  BY DEF Pay
<1>3. a \in Nat /\ a # 0
  BY CashDeskAssumption
<1>4. PICK row : row = [customer |-> c, amount |-> a]
  OBVIOUS
<1>5. /\ row \in PaymentRow /\ row # NoPayment
      /\ payment'[p] = row /\ (\A q \in Payment \ {p} : payment'[q] = payment[q])
      /\ payment' \in [Payment -> PaymentRow]
  BY <1>1, <1>3, <1>4, CashDeskAssumption DEF DeskInv, TypeOK, PaymentRow, NoPayment
<1>6. /\ \A d \in Customer : /\ customer'[d].balance = customer[d].balance - (IF d = c THEN a ELSE 0)
                             /\ customer'[d].wallet = customer[d].wallet
      /\ customer' \in [Customer -> CustomerRow]
  <2>1. PICK was, x : was = customer[c] /\ x = was.balance - a
    OBVIOUS
  <2>2. was \in CustomerRow /\ x \in Int
    BY <1>3, <2>1 DEF DeskInv, TypeOK, CustomerRow
  <2>3. PICK new : new = [was EXCEPT !.balance = x]
    OBVIOUS
  <2>4. new \in CustomerRow /\ new.balance = x /\ new.wallet = was.wallet
    BY <2>2, <2>3 DEF CustomerRow
  <2>5. customer' = [customer EXCEPT ![c] = new]
    BY <1>1, <2>1, <2>3
  <2>6. \A d \in Customer : customer[d].balance \in Int
    BY DEF DeskInv, TypeOK, CustomerRow
  <2> QED
    BY <2>1, <2>4, <2>5, <2>6 DEF DeskInv, TypeOK
<1>7. TypeOK'
  BY <1>2, <1>5, <1>6 DEF DeskInv, TypeOK
<1>8. DocsStay /\ PeriodsStay
  BY <1>2 DEF DocsStay, PeriodsStay
<1>9. ~Has("customer_payment", p)
  BY <1>2 DEF DeskInv, PaymentBooks, OfPayment, Has
<1>10. /\ JournalSound'
       /\ \E n : /\ n \notin journal /\ journal' = journal \cup {n} /\ n.type = "customer_payment"
                 /\ n.ref = p /\ n.day = day /\ n.lines = PaymentLines(a)
  <2>1. /\ DatedAhead("customer_payment") /\ "customer_payment" \in EntryType
        /\ IsLines(PaymentLines(a))
    BY <1>3, DocumentLines DEF DatedAhead, EntryType
  <2> QED
    BY <1>1, <1>2, <1>9, <2>1, Posted DEF DeskInv
<1>11. /\ Adds(EntryType \ SessionTypes) /\ Adds(EntryType \ SaleTypes)
       /\ Adds(EntryType \ VoucherTypes) /\ Adds(EntryType \ {"transaction"})
       /\ journal \subseteq journal'
  BY <1>10 DEF Adds, EntryType, SessionTypes, SaleTypes, VoucherTypes
<1>12. SessionBooks' /\ SaleBooks' /\ VoucherBooks'
  BY <1>2, <1>8, <1>11, SessionsStay, SalesStay, VouchersStay DEF DeskInv
<1>13. PaymentBooks'
  <2>1. ASSUME NEW e \in journal', e.type = "customer_payment" PROVE OfPayment(e)'
    <3>1. CASE e \in journal
      <4>1. OfPayment(e) /\ e.ref # p
        BY <1>9, <2>1, <3>1 DEF DeskInv, PaymentBooks, Has
      <4> QED
        BY <1>5, <4>1 DEF OfPayment
    <3>2. CASE e \notin journal
      BY <1>4, <1>5, <1>10, <3>2 DEF OfPayment
    <3> QED
      BY <3>1, <3>2
  <2>2. ASSUME NEW q \in Payment
        PROVE  /\ payment'[q].customer = None => payment'[q] = NoPayment
               /\ payment'[q] # NoPayment => Has("customer_payment", q)'
    <3>1. CASE q = p
      <4>1. Has("customer_payment", p)'
        BY <1>10 DEF Has
      <4> QED
        BY <1>4, <1>5, <3>1, <4>1, CashDeskAssumption
    <3>2. CASE q # p
      BY <1>5, <1>11, <3>2 DEF DeskInv, PaymentBooks, Has
    <3> QED
      BY <3>1, <3>2
  <2> QED
    BY <2>1, <2>2 DEF PaymentBooks
<1>14. TillsTell' /\ VoidsTell'
  BY <1>2, <1>8, <1>11, TillsStay, VoidsStay DEF DeskInv
<1>15. CustomersTell'
  <2>1. \A d \in Customer : /\ PaidBy(payment, d)' = PaidBy(payment, d) + (IF d = c THEN a ELSE 0)
                            /\ PaidBy(payment, d) \in Int
    <3> TAKE d \in Customer
    <3>1. PICK pl \in [Payment -> PaymentRow], pm \in [Payment -> PaymentRow] :
             pl = payment /\ pm = payment'
      BY <1>5 DEF DeskInv, TypeOK
    <3>2. (\A q \in Payment \ {p} : pm[q] = pl[q]) /\ pl[p].customer # d /\ pm[p] = row
      BY <1>2, <1>5, <3>1, CashDeskAssumption DEF NoPayment
    <3>3. PaidBy(pm, d) = PaidBy(pl, d) + (IF pm[p].customer = d THEN pm[p].amount ELSE 0)
          /\ PaidBy(pl, d) \in Int
      BY <3>2, PaidMoves
    <3>4. PaidBy(payment, d)' = PaidBy(pm, d) /\ PaidBy(payment, d) = PaidBy(pl, d)
      BY <3>1 DEF PaidBy, SumOver
    <3> HIDE DEF PaidBy
    <3> QED
      BY <1>4, <3>2, <3>3, <3>4
  <2>2. \A d, m : Charged(sale, d, m)' = Charged(sale, d, m) /\ Charged(sale, d, m) \in Int
    BY <1>2, ChargedStays DEF DeskInv
  <2>3. \A d \in Customer : /\ customer[d].balance \in Int /\ customer[d].wallet \in Int
                            /\ waived[d] \in Int
    BY DEF DeskInv, TypeOK, CustomerRow
  <2> HIDE DEF PaidBy, Charged
  <2>4. ASSUME NEW d \in Customer, Limit > 0 PROVE customer'[d].balance <= Limit
    <3>1. customer[d].balance <= Limit
      BY <2>4 DEF DeskInv, CustomersTell
    <3> QED
      BY <1>3, <1>6, <2>3, <3>1, CashDeskAssumption
  <2>5. ASSUME NEW d \in Customer, d \notin edited'
        PROVE  /\ customer'[d].balance = Charged(sale, d, "credit")' - PaidBy(payment, d)' + waived'[d]
               /\ customer'[d].wallet = Wallet - Charged(sale, d, "store_credit")'
    <3>1. /\ customer[d].balance = Charged(sale, d, "credit") - PaidBy(payment, d) + waived[d]
          /\ customer[d].wallet = Wallet - Charged(sale, d, "store_credit")
      BY <1>2, <2>5 DEF DeskInv, CustomersTell
    <3>2. waived' = waived /\ customer'[d].wallet = customer[d].wallet
      BY <1>2, <1>6
    <3>3. CASE d = c
      <4>1. customer'[d].balance = customer[d].balance - a /\ PaidBy(payment, d)' = PaidBy(payment, d) + a
        BY <1>6, <2>1, <3>3
      <4> QED
        BY <1>3, <2>1, <2>2, <2>3, <3>1, <3>2, <4>1
    <3>4. CASE d # c
      <4>1. customer'[d].balance = customer[d].balance /\ PaidBy(payment, d)' = PaidBy(payment, d)
        BY <1>6, <2>1, <2>3, <3>4
      <4> QED
        BY <2>2, <3>1, <3>2, <4>1
    <3> QED
      BY <3>3, <3>4
  <2> QED
    BY <2>4, <2>5 DEF CustomersTell
<1>16. HiddenTell'
  <2>1. DOMAIN PaymentLines(a) = {"1000", "1100"}
    BY DEF PaymentLines, Transfer
  <2>2. \E n : journal' = journal \cup {n} /\ DOMAIN n.lines \cap inactive = {}
    BY <1>1, <1>10, <2>1 DEF Postable
  <2> QED
    BY <1>2, <1>8, <2>2, HiddenStays DEF DeskInv
<1>17. HandlersKnow'
  BY <1>2, <1>8, <1>10, <1>11, HandlersStay DEF DeskInv
<1> QED
  BY <1>7, <1>10, <1>12, <1>13, <1>14, <1>15, <1>16, <1>17 DEF DeskInv

LEMMA AdjustKeeps ==
    ASSUME DeskInv, NEW h \in Handler, AdjustCommit(h)
    PROVE  DeskInv'
<1> USE DEF docs, ledger, history
<1>1. PICK c : c = handler[h].on
  OBVIOUS
<1>2. c \in Customer /\ handler[h].seen \in Int
  BY <1>1 DEF AdjustCommit, DeskInv, HandlersKnow, Knows
<1>3. PICK d \in Delta : customer' = [customer EXCEPT ![c].balance = Adjusted(handler[h].seen, d)]
  BY <1>1 DEF AdjustCommit
<1>4. /\ UNCHANGED <<session, sale, payment, voucher, journal, inactive, pending, period, raced, crossed,
                     late, waived, time>>
      /\ handler' = [handler EXCEPT ![h] = Idle] /\ edited' = edited \cup {c}
  BY <1>1 DEF AdjustCommit, Finish
<1>5. PICK x : x = Adjusted(handler[h].seen, d)
  OBVIOUS
<1>6. x \in Int /\ x <= Limit
  BY <1>2, <1>5, CashDeskAssumption DEF Adjusted, Most, Least
<1>7. /\ \A k \in Customer \ {c} : customer'[k] = customer[k]
      /\ customer'[c].balance = x
      /\ customer' \in [Customer -> CustomerRow]
  <2>1. PICK was : was = customer[c]
    OBVIOUS
  <2>2. was \in CustomerRow
    BY <1>2, <2>1 DEF DeskInv, TypeOK
  <2>3. PICK new : new = [was EXCEPT !.balance = x]
    OBVIOUS
  <2>4. new \in CustomerRow /\ new.balance = x
    BY <1>6, <2>2, <2>3 DEF CustomerRow
  <2>5. customer' = [customer EXCEPT ![c] = new]
    BY <1>3, <1>5, <2>1, <2>3
  <2> QED
    BY <1>2, <2>4, <2>5 DEF DeskInv, TypeOK
<1>8. TypeOK' /\ DocsStay /\ PeriodsStay /\ \A types : Adds(types)
  BY <1>4, <1>7 DEF DeskInv, TypeOK, DocsStay, PeriodsStay, Adds
<1>9. JournalSound'
  <2>1. time <= time'
    BY <1>4 DEF DeskInv, TypeOK
  <2> QED
    BY <1>4, <1>8, <2>1, JournalStays DEF DeskInv
<1>10. SessionBooks' /\ SaleBooks' /\ PaymentBooks' /\ VoucherBooks'
  BY <1>4, <1>8, SessionsStay, SalesStay, PaymentsStay, VouchersStay DEF DeskInv
<1>11. TillsTell' /\ VoidsTell' /\ HiddenTell'
  BY <1>4, <1>8, TillsStay, VoidsStay, HiddenStays DEF DeskInv
<1>12. CustomersTell'
  <2>1. \A k, m : Charged(sale, k, m)' = Charged(sale, k, m)
    BY <1>4, ChargedStays DEF DeskInv
  <2>2. \A k : PaidBy(payment, k)' = PaidBy(payment, k)
    BY <1>4 DEF PaidBy, SumOver
  <2> HIDE DEF Charged, PaidBy
  <2>3. ASSUME NEW k \in Customer, Limit > 0 PROVE customer'[k].balance <= Limit
    BY <1>6, <1>7, <2>3 DEF DeskInv, CustomersTell
  <2>4. ASSUME NEW k \in Customer, k \notin edited'
        PROVE  /\ customer'[k].balance = Charged(sale, k, "credit")' - PaidBy(payment, k)' + waived'[k]
               /\ customer'[k].wallet = Wallet - Charged(sale, k, "store_credit")'
    BY <1>4, <1>7, <2>1, <2>2, <2>4 DEF DeskInv, CustomersTell
  <2> QED
    BY <2>3, <2>4 DEF CustomersTell
<1>13. HandlersKnow'
  BY <1>4, <1>8, <1>9, HandlersStay DEF DeskInv
<1> QED
  BY <1>8, <1>9, <1>10, <1>11, <1>12, <1>13 DEF DeskInv

-----------------------------------------------------------------------------
(* Expense vouchers, and accounts.                                         *)

LEMMA CreateVoucherKeeps ==
    ASSUME DeskInv, NEW v \in Voucher, CreateVoucher(v)
    PROVE  DeskInv'
<1> USE DEF docs, ledger, history
<1>1. PICK a \in Amount, code \in Expense, day \in Day :
          /\ voucher' = [voucher EXCEPT ![v] =
                [status |-> "live", account |-> code, amount |-> a, day |-> day]]
          /\ Post("expense_voucher", v, day, VoucherLines(code, a))
  BY DEF CreateVoucher
<1>2. /\ UNCHANGED <<session, sale, customer, payment, inactive, pending, period, handler, time,
                     history>>
      /\ voucher[v].status = "none"
  BY DEF CreateVoucher
<1>3. a \in Nat
  BY CashDeskAssumption
<1>4. PICK row : row = [status |-> "live", account |-> code, amount |-> a, day |-> day]
  OBVIOUS
<1>5. /\ row \in VoucherRow /\ voucher'[v] = row
      /\ (\A w \in Voucher \ {v} : voucher'[w] = voucher[w])
      /\ voucher' \in [Voucher -> VoucherRow]
  BY <1>1, <1>3, <1>4 DEF DeskInv, TypeOK, VoucherRow
<1>6. TypeOK'
  BY <1>2, <1>5 DEF DeskInv, TypeOK
<1>7. DocsStay /\ PeriodsStay
  BY <1>2, <1>4, <1>5 DEF DocsStay, PeriodsStay
<1>8. ~Has("expense_voucher", v) /\ ~Has("expense_void", v)
  BY <1>2 DEF DeskInv, VoucherBooks, OfVoucher, Has
<1>9. /\ JournalSound'
      /\ \E n : /\ n \notin journal /\ journal' = journal \cup {n} /\ n.type = "expense_voucher"
                /\ n.ref = v /\ n.day = day /\ n.lines = VoucherLines(code, a)
  <2>1. /\ "expense_voucher" \in EntryType /\ DatedAhead("expense_voucher")
        /\ IsLines(VoucherLines(code, a))
    BY <1>3, DocumentLines DEF EntryType, DatedAhead
  <2> QED
    BY <1>1, <1>2, <1>8, <2>1, Posted DEF DeskInv
<1>10. /\ Adds(EntryType \ SessionTypes) /\ Adds(EntryType \ SaleTypes)
       /\ Adds(EntryType \ {"customer_payment"}) /\ Adds(EntryType \ {"transaction"})
       /\ journal \subseteq journal'
  BY <1>9 DEF Adds, EntryType, SessionTypes, SaleTypes
<1>11. SessionBooks' /\ SaleBooks' /\ PaymentBooks'
  BY <1>2, <1>7, <1>10, SessionsStay, SalesStay, PaymentsStay DEF DeskInv
<1>12. VoucherBooks'
  <2>1. ASSUME NEW e \in journal', e.type \in VoucherTypes PROVE OfVoucher(e)'
    <3>1. CASE e \in journal
      <4>1. OfVoucher(e) /\ e.ref # v
        BY <1>8, <2>1, <3>1 DEF DeskInv, VoucherBooks, VoucherTypes, Has
      <4>2. voucher'[e.ref] = voucher[e.ref]
        BY <1>5, <4>1 DEF OfVoucher
      <4> QED
        BY <4>1, <4>2 DEF OfVoucher
    <3>2. CASE e \notin journal
      BY <1>4, <1>5, <1>9, <3>2 DEF OfVoucher
    <3> QED
      BY <3>1, <3>2
  <2>2. ASSUME NEW w \in Voucher
        PROVE  /\ voucher'[w].status = "none" => voucher'[w] = NoVoucher
               /\ voucher'[w].status # "none" =>
                     voucher'[w].account \in Expense /\ Has("expense_voucher", w)'
               /\ voucher'[w].status = "void" => Has("expense_void", w)'
    <3>1. CASE w = v
      <4>1. Has("expense_voucher", v)'
        BY <1>9 DEF Has
      <4> QED
        BY <1>4, <1>5, <3>1, <4>1
    <3>2. CASE w # v
      BY <1>5, <1>10, <3>2 DEF DeskInv, VoucherBooks, Has
    <3> QED
      BY <3>1, <3>2
  <2>3. ASSUME NEW w \in Voucher, w \notin raced', NEW e \in Reversals(w)', NEW f \in Reversals(w)'
        PROVE  e = f
    <3>1. e \in Reversals(w) /\ f \in Reversals(w)
      BY <1>9, <2>3 DEF Reversals, About
    <3> QED
      BY <1>2, <2>3, <3>1 DEF DeskInv, VoucherBooks
  <2> QED
    BY <2>1, <2>2, <2>3 DEF VoucherBooks, VoucherTypes
<1>13. TillsTell' /\ CustomersTell' /\ VoidsTell'
  BY <1>2, <1>7, <1>10, TillsStay, CustomersStay, VoidsStay DEF DeskInv
<1>14. HiddenTell'
  <2>1. DOMAIN VoucherLines(code, a) = {code, "1000"} /\ "1000" \notin inactive
    BY DEF VoucherLines, Transfer, DeskInv, HiddenTell, System
  <2>2. voucher'[v].status # "none" /\ voucher'[v].account = code
    BY <1>4, <1>5
  <2>3. \E n : /\ journal' = journal \cup {n}
               /\ \A x \in DOMAIN n.lines \cap inactive :
                     \E w \in Voucher : voucher'[w].status # "none" /\ voucher'[w].account = x
    BY <1>9, <2>1, <2>2
  <2>4. raced \subseteq raced' /\ inactive' = inactive
    BY <1>2
  <2> QED
    BY <1>7, <2>3, <2>4, HiddenStays DEF DeskInv
<1>15. HandlersKnow'
  BY <1>2, <1>7, <1>9, <1>10, HandlersStay DEF DeskInv
<1> QED
  BY <1>6, <1>9, <1>11, <1>12, <1>13, <1>14, <1>15 DEF DeskInv

LEMMA VoidVoucherKeeps ==
    ASSUME DeskInv, NEW h \in Handler, VoidVoucherCommit(h)
    PROVE  DeskInv'
<1> USE DEF docs, ledger, history
<1>1. PICK v : v = handler[h].on
  OBVIOUS
<1>2. PICK seen : seen = handler[h].seen
  OBVIOUS
<1>3. /\ v \in Voucher /\ voucher[v].status # "none" /\ seen \in Nat
      /\ seen <= Cardinality(Reversals(v))
  <2>1. Knows(handler[h]) /\ handler[h].op = "unspend"
    BY DEF VoidVoucherCommit, DeskInv, HandlersKnow
  <2> HIDE DEF Reversals
  <2> QED
    BY <1>1, <1>2, <2>1 DEF Knows
<1>4. PICK old : old = voucher[v]
  OBVIOUS
<1>5. /\ voucher' = [voucher EXCEPT ![v].status = "void"]
      /\ IF seen > 0 THEN UNCHANGED <<journal, raced>>
         ELSE /\ Post("expense_void", v, Today, Reversal(VoucherLines(old.account, old.amount)))
              /\ raced' = raced \cup (IF Cardinality(Reversals(v)) = seen THEN {} ELSE {v})
  BY <1>1, <1>2, <1>4 DEF VoidVoucherCommit, AlreadyReversed
<1>6. /\ UNCHANGED <<session, sale, customer, payment, inactive, pending, period, crossed, late,
                     edited, waived, time>>
      /\ handler' = [handler EXCEPT ![h] = Idle]
  BY DEF VoidVoucherCommit, Finish
<1>7. old \in VoucherRow /\ old.account \in Expense /\ Has("expense_voucher", v)
  BY <1>3, <1>4 DEF DeskInv, TypeOK, VoucherBooks
<1>8. PICK row : row = [old EXCEPT !.status = "void"]
  OBVIOUS
<1>9. /\ row \in VoucherRow /\ row.status = "void" /\ row.account = old.account
      /\ row.amount = old.amount /\ row.day = old.day
  BY <1>7, <1>8 DEF VoucherRow
<1>10. /\ voucher'[v] = row /\ (\A w \in Voucher \ {v} : voucher'[w] = voucher[w])
       /\ voucher' \in [Voucher -> VoucherRow]
  <2>1. voucher' = [voucher EXCEPT ![v] = row]
    BY <1>4, <1>5, <1>8
  <2> QED
    BY <1>3, <1>9, <2>1 DEF DeskInv, TypeOK
<1>11. TypeOK' /\ DocsStay /\ PeriodsStay /\ raced \subseteq raced'
  BY <1>4, <1>5, <1>6, <1>9, <1>10 DEF DeskInv, TypeOK, DocsStay, PeriodsStay
<1>12. Reversals(v) \in SUBSET journal /\ IsFiniteSet(Reversals(v))
  <2>1. Reversals(v) \in SUBSET journal
    BY DEF Reversals, About
  <2> QED
    BY <2>1, FS_Subset DEF DeskInv, JournalSound
<1>13. /\ JournalSound'
       /\ \/ seen > 0 /\ journal' = journal /\ raced' = raced
          \/ /\ seen = 0 /\ raced' = raced \cup (IF Cardinality(Reversals(v)) = 0 THEN {} ELSE {v})
             /\ \E n : /\ n \notin journal /\ journal' = journal \cup {n} /\ n.type = "expense_void"
                       /\ n.ref = v /\ n.lines = Reversal(VoucherLines(old.account, old.amount))
  <2>1. CASE seen > 0
    <3>1. time <= time'
      BY <1>6 DEF DeskInv, TypeOK
    <3> QED
      BY <1>5, <1>11, <2>1, <3>1, JournalStays DEF DeskInv
  <2>2. CASE ~(seen > 0)
    <3>1. IsLines(VoucherLines(old.account, old.amount))
      BY <1>7, DocumentLines DEF VoucherRow
    <3>2. IsLines(Reversal(VoucherLines(old.account, old.amount)))
      BY <3>1, Reversed
    <3>3. Today \in Day /\ Today <= Today /\ "expense_void" \in EntryType /\ ~Single("expense_void")
      BY TodayIsDay DEF DeskInv, EntryType, Single
    <3>4. /\ JournalSound'
          /\ \E n : /\ n \notin journal /\ journal' = journal \cup {n} /\ n.type = "expense_void"
                    /\ n.ref = v /\ n.day = Today
                    /\ n.lines = Reversal(VoucherLines(old.account, old.amount))
      BY <1>5, <1>6, <2>2, <3>2, <3>3, Posted DEF DeskInv
    <3>5. seen = 0
      BY <1>3, <2>2
    <3> HIDE DEF Reversals
    <3> QED
      BY <1>5, <3>4, <3>5
  <2> QED
    BY <2>1, <2>2
<1>14. /\ Adds(EntryType \ SessionTypes) /\ Adds(EntryType \ SaleTypes)
       /\ Adds(EntryType \ {"customer_payment"}) /\ Adds(EntryType \ {"transaction"})
       /\ journal \subseteq journal'
  BY <1>13 DEF Adds, EntryType, SessionTypes, SaleTypes
<1>15. SessionBooks' /\ SaleBooks' /\ PaymentBooks'
  BY <1>6, <1>11, <1>14, SessionsStay, SalesStay, PaymentsStay DEF DeskInv
<1>16. VoucherBooks'
  <2>1. ASSUME NEW e \in journal', e.type \in VoucherTypes PROVE OfVoucher(e)'
    <3>1. CASE e \in journal
      <4>1. OfVoucher(e)
        BY <2>1, <3>1 DEF DeskInv, VoucherBooks, VoucherTypes
      <4>2. CASE e.ref = v
        BY <1>4, <1>9, <1>10, <4>1, <4>2 DEF OfVoucher
      <4>3. CASE e.ref # v
        BY <1>10, <4>1, <4>3 DEF OfVoucher
      <4> QED
        BY <4>2, <4>3
    <3>2. CASE e \notin journal
      BY <1>3, <1>9, <1>10, <1>13, <3>2 DEF OfVoucher
    <3> QED
      BY <3>1, <3>2
  <2>2. Has("expense_void", v)'
    <3>1. CASE seen > 0
      <4>1. Reversals(v) # {}
        <5>1. Reversals(v) = {} => Cardinality(Reversals(v)) = 0
          BY FS_EmptySet
        <5> HIDE DEF Reversals
        <5> QED
          BY <1>3, <3>1, <5>1
      <4> QED
        BY <1>14, <4>1 DEF Reversals, About, Has
    <3>2. CASE ~(seen > 0)
      BY <1>13, <3>2 DEF Has
    <3> QED
      BY <3>1, <3>2
  <2>3. ASSUME NEW w \in Voucher
        PROVE  /\ voucher'[w].status = "none" => voucher'[w] = NoVoucher
               /\ voucher'[w].status # "none" =>
                     voucher'[w].account \in Expense /\ Has("expense_voucher", w)'
               /\ voucher'[w].status = "void" => Has("expense_void", w)'
    <3>1. \A type, ref : Has(type, ref) => Has(type, ref)'
      BY <1>14 DEF Has
    <3>2. CASE w = v
      BY <1>7, <1>9, <1>10, <2>2, <3>1, <3>2
    <3>3. CASE w # v
      BY <1>10, <3>1, <3>3 DEF DeskInv, VoucherBooks
    <3> QED
      BY <3>2, <3>3
  <2>4. ASSUME NEW w \in Voucher, w \notin raced', NEW e \in Reversals(w)', NEW f \in Reversals(w)'
        PROVE  e = f
    <3>1. CASE e \in Reversals(w) /\ f \in Reversals(w)
      BY <1>11, <2>4, <3>1 DEF DeskInv, VoucherBooks
    <3>2. CASE ~(e \in Reversals(w) /\ f \in Reversals(w))
      <4>1. /\ w = v /\ seen = 0
            /\ raced' = raced \cup (IF Cardinality(Reversals(v)) = 0 THEN {} ELSE {v})
        BY <1>13, <2>4, <3>2 DEF Reversals, About
      <4>2. Cardinality(Reversals(v)) = 0
        <5> HIDE DEF Reversals
        <5> QED
          BY <2>4, <4>1
      <4>3. Reversals(v) = {}
        BY <1>12, <4>2, FS_EmptySet
      <4> QED
        BY <1>13, <2>4, <4>1, <4>3 DEF Reversals, About
    <3> QED
      BY <3>1, <3>2
  <2> QED
    BY <2>1, <2>3, <2>4 DEF VoucherBooks, VoucherTypes
<1>17. TillsTell' /\ CustomersTell' /\ VoidsTell'
  BY <1>6, <1>11, <1>14, TillsStay, CustomersStay, VoidsStay DEF DeskInv
<1>18. HiddenTell'
  <2>1. DOMAIN Reversal(VoucherLines(old.account, old.amount)) = {old.account, "1000"}
        /\ "1000" \notin inactive
    BY DEF Reversal, VoucherLines, Transfer, DeskInv, HiddenTell, System
  <2>2. voucher'[v].status # "none" /\ voucher'[v].account = old.account
    BY <1>9, <1>10
  <2>3. \/ journal' = journal
        \/ \E n : /\ journal' = journal \cup {n}
                  /\ \A x \in DOMAIN n.lines \cap inactive :
                        \E w \in Voucher : voucher'[w].status # "none" /\ voucher'[w].account = x
    BY <1>3, <1>13, <2>1, <2>2
  <2> QED
    BY <1>6, <1>11, <2>3, HiddenStays DEF DeskInv
<1>19. HandlersKnow'
  BY <1>6, <1>11, <1>13, <1>14, HandlersStay DEF DeskInv
<1> QED
  BY <1>11, <1>13, <1>15, <1>16, <1>17, <1>18, <1>19 DEF DeskInv

LEMMA DeactivateKeeps ==
    ASSUME DeskInv, NEW h \in Handler, DeactivateCommit(h)
    PROVE  DeskInv'
<1> USE DEF docs, ledger, history
<1>1. PICK a : a = handler[h].on
  OBVIOUS
<1>2. a \notin System
  BY <1>1 DEF DeactivateCommit, DeskInv, HandlersKnow, Knows
<1>3. /\ UNCHANGED <<session, sale, customer, payment, voucher, journal, pending, period, crossed,
                     late, edited, waived, time>>
      /\ handler' = [handler EXCEPT ![h] = Idle]
      /\ inactive' = inactive \cup {a} /\ raced' = raced \cup ({a} \cap Touched(journal))
  BY <1>1 DEF DeactivateCommit, Finish
<1>4. TypeOK' /\ DocsStay /\ PeriodsStay /\ raced \subseteq raced' /\ \A types : Adds(types)
  BY <1>3 DEF DeskInv, TypeOK, DocsStay, PeriodsStay, Adds
<1>5. JournalSound'
  <2>1. time <= time'
    BY <1>3 DEF DeskInv, TypeOK
  <2> QED
    BY <1>3, <1>4, <2>1, JournalStays DEF DeskInv
<1>6. SessionBooks' /\ SaleBooks' /\ PaymentBooks' /\ VoucherBooks'
  BY <1>3, <1>4, SessionsStay, SalesStay, PaymentsStay, VouchersStay DEF DeskInv
<1>7. TillsTell' /\ CustomersTell' /\ VoidsTell'
  BY <1>3, <1>4, TillsStay, CustomersStay, VoidsStay DEF DeskInv
<1>8. HiddenTell'
  <2>1. Touched(journal)' = Touched(journal)
    BY <1>3
  <2> HIDE DEF Touched
  <2> QED
    BY <1>2, <1>3, <2>1 DEF DeskInv, HiddenTell
<1>9. HandlersKnow'
  BY <1>3, <1>4, <1>5, HandlersStay DEF DeskInv
<1> QED
  BY <1>4, <1>5, <1>6, <1>7, <1>8, <1>9 DEF DeskInv

-----------------------------------------------------------------------------
(* The invariant is inductive.                                             *)

LEMMA InitDesk == Init => DeskInv
<1> SUFFICES ASSUME Init PROVE DeskInv
  OBVIOUS
<1>1. TypeOK
  <2>1. NoSession \in SessionRow /\ NoPayment \in PaymentRow
    BY DEF NoSession, SessionRow, NoPayment, PaymentRow
  <2>2. NoSale \in SaleRow
    BY CashDeskAssumption DEF NoSale, SaleRow, NoBasket, BasketRow
  <2>3. 0 \in Day
    BY DaysOrdered
  <2>4. NoVoucher \in VoucherRow /\ NoPeriod \in PeriodRow
    BY <2>3 DEF NoVoucher, VoucherRow, NoPeriod, PeriodRow
  <2>5. \A c \in Customer : [balance |-> 0, wallet |-> Wallet] \in CustomerRow
    BY CashDeskAssumption DEF CustomerRow
  <2> QED
    BY <2>1, <2>2, <2>4, <2>5, CashDeskAssumption DEF Init, TypeOK
<1>2. HandlersKnow
  BY DEF Init, HandlersKnow, Knows, Idle
<1>3. JournalSound
  BY FS_EmptySet DEF Init, JournalSound
<1>4. SessionBooks
  BY DEF Init, SessionBooks, NoSession
<1>5. SaleBooks
  BY DEF Init, SaleBooks, SaleShape, NoSale, Originals, About
<1>6. PaymentBooks
  BY DEF Init, PaymentBooks
<1>7. VoucherBooks
  BY DEF Init, VoucherBooks, NoVoucher, Reversals, About
<1>8. CompletedIn(sale, Sale) = {}
  BY DEF Init, CompletedIn, NoSale
<1>9. TillsTell
  <2>1. \A s : Tendered(sale, s) = 0
    BY <1>8, SumOfNone DEF Tendered, SumOver
  <2> HIDE DEF Tendered
  <2> QED
    BY <2>1 DEF Init, TillsTell, NoSession, OpenSessions
<1>10. CustomersTell
  <2>1. \A c, m : Charged(sale, c, m) = 0
    BY <1>8, SumOfNone DEF Charged, SumOver
  <2>2. \A c \in Customer : PaidBy(payment, c) = 0
    <3> TAKE c \in Customer
    <3>1. {p \in Payment : payment[p].customer = c} = {}
      BY CashDeskAssumption DEF Init, NoPayment
    <3> QED
      BY <3>1, SumOfNone DEF PaidBy, SumOver
  <2>3. \A c \in Customer : customer[c].balance = 0 /\ customer[c].wallet = Wallet /\ waived[c] = 0
    BY DEF Init
  <2>4. Limit \in Nat /\ Wallet \in Nat
    BY CashDeskAssumption
  <2> HIDE DEF Charged, PaidBy
  <2> QED
    BY <2>1, <2>2, <2>3, <2>4 DEF CustomersTell
<1>11. VoidsTell /\ HiddenTell
  BY DEF Init, VoidsTell, Unreversed, NoSale, HiddenTell
<1> QED
  BY <1>1, <1>2, <1>3, <1>4, <1>5, <1>6, <1>7, <1>9, <1>10, <1>11 DEF DeskInv

LEMMA NextDesk == DeskInv /\ [Next]_vars => DeskInv'
<1> SUFFICES ASSUME DeskInv, [Next]_vars PROVE DeskInv'
  OBVIOUS
<1>1. ASSUME NEW h \in Handler,
             \/ OpenRead(h) \/ CreatePeriodRead(h)
             \/ \E s \in Session : CashSaleRead(h, s)
             \/ \E t \in Sale : VoidRead(h, t) \/ FailRead(h, t) \/ ConfirmRead(h, t)
             \/ VoidLook(h) \/ ConfirmLook(h)
             \/ \E c \in Customer : AdjustRead(h, c)
             \/ \E v \in Voucher : VoidVoucherRead(h, v)
             \/ \E a \in AccountCode : DeactivateRead(h, a)
      PROVE  DeskInv'
  BY <1>1, ReadingsKeep
<1>2. ASSUME \/ \E h \in Handler : Refuse(h) \/ \E q \in Period : CreatePeriodCommit(h, q)
             \/ \E q \in Period : ClosePeriod(q) \/ LockPeriod(q)
             \/ Tick \/ UNCHANGED vars
      PROVE  DeskInv'
  BY <1>2, PeriodsKeep
<1>3. ASSUME NEW h \in Handler,
             \/ VoidCommit(h) \/ FailCommit(h) \/ ConfirmCommit(h)
             \/ AdjustCommit(h) \/ VoidVoucherCommit(h) \/ DeactivateCommit(h)
      PROVE  DeskInv'
  BY <1>3, VoidKeeps, FailKeeps, ConfirmKeeps, AdjustKeeps, VoidVoucherKeeps, DeactivateKeeps
<1>4. ASSUME NEW h \in Handler, NEW s \in Session, OpenCommit(h, s) PROVE DeskInv'
  BY <1>4, OpenKeeps
<1>5. ASSUME NEW h \in Handler, NEW t \in Sale, CashSaleCommit(h, t) PROVE DeskInv'
  BY <1>5, CashSaleKeeps
<1>6. ASSUME NEW s \in Session, Close(s) PROVE DeskInv'
  BY <1>6, CloseKeeps
<1>7. ASSUME NEW t \in Sale, OtherSale(t) \/ Callback(t) PROVE DeskInv'
  BY <1>7, OtherSaleKeeps, CallbackKeeps
<1>8. ASSUME NEW p \in Payment, Pay(p) PROVE DeskInv'
  BY <1>8, PayKeeps
<1>9. ASSUME NEW v \in Voucher, CreateVoucher(v) PROVE DeskInv'
  BY <1>9, CreateVoucherKeeps
<1> HIDE DEF DeskInv
<1> QED
  BY <1>1, <1>2, <1>3, <1>4, <1>5, <1>6, <1>7, <1>8, <1>9 DEF Next

\* The invariant that all the theorems below are read from.
THEOREM DeskHolds == Spec => []DeskInv
  BY InitDesk, NextDesk, PTL DEF Spec

-----------------------------------------------------------------------------
(* The entries of one document.                                            *)

LEMMA JournalEntries ==
    ASSUME JournalSound
    PROVE  AreEntries(journal) /\ \A types, refs : AreEntries(About(journal, types, refs))
<1>1. AreEntries(journal)
  BY EntrySound DEF JournalSound, AreEntries
<1>2. \A types, refs : About(journal, types, refs) \subseteq journal
  BY DEF About
<1> QED
  BY <1>1, <1>2, EntriesWithin

\* A document with an entry has one of its type.
LEMMA TheEntry ==
    ASSUME JournalSound, NEW type, NEW ref, Has(type, ref),
           Single(type) \/ \A e, f \in About(journal, {type}, {ref}) : e = f
    PROVE  \E e \in journal : /\ e.type = type /\ e.ref = ref /\ IsLines(e.lines)
                              /\ About(journal, {type}, {ref}) = {e}
<1>1. PICK e \in journal : e.type = type /\ e.ref = ref
  BY DEF Has
<1>2. ASSUME NEW f \in journal, f.type = type, f.ref = ref PROVE f = e
  <2>1. CASE Single(type)
    BY <1>1, <1>2, <2>1 DEF JournalSound
  <2>2. CASE \A d, k \in About(journal, {type}, {ref}) : d = k
    BY <1>1, <1>2, <2>2 DEF About
  <2> QED
    BY <2>1, <2>2
<1>3. About(journal, {type}, {ref}) = {e}
  BY <1>1, <1>2 DEF About
<1> QED
  BY <1>1, <1>3, EntrySound

LEMMA PartOfTransfer ==
    ASSUME NEW a \in AccountCode, NEW b \in AccountCode, NEW amount \in Int
    PROVE  /\ Part(Transfer(a, b, amount), {a}) = amount
           /\ a # b => Part(Transfer(a, b, amount), {b}) = -amount
           /\ \A A : A \cap {a, b} = {} => Part(Transfer(a, b, amount), A) = 0
<1>1. PICK l : l = Transfer(a, b, amount)
  OBVIOUS
<1>2. IsLines(l) /\ DOMAIN l = {a, b} /\ l[a] = amount /\ (a # b => l[b] = -amount)
  BY <1>1, TransferLines DEF Transfer
<1>3. Part(l, {a}) = l[a] /\ Part(l, {b}) = l[b]
  BY <1>2, PartOfOne
<1>4. \A A : A \cap {a, b} = {} => Part(l, A) = 0
  BY <1>2, PartOfNone
<1> QED
  BY <1>1, <1>2, <1>3, <1>4

-----------------------------------------------------------------------------
(* The tills.                                                              *)

LEMMA SessionAccounted ==
    ASSUME DeskInv, NEW s \in Session
    PROVE  /\ Accounted(s, "cash_session_open", session[s].float)
           /\ Accounted(s, "cash_session_close", session[s].variance)
<1>1. "1040" \in AccountCode /\ "1000" \in AccountCode /\ "2300" \in AccountCode
  BY DEF AccountCode, Asset, Liability, Result
<1>2. /\ session[s].float \in Int /\ session[s].variance \in Int
  BY DEF DeskInv, TypeOK, SessionRow
<1>3. ASSUME NEW type \in SessionTypes, NEW amount \in Int, NEW lines,
             lines = Transfer("1040", "1000", amount) \/ lines = Transfer("1040", "2300", amount),
             amount # 0 => Has(type, s) \/ <<type, s>> \in pending,
             <<type, s>> \in pending => amount # 0,
             \A e \in journal : e.type = type /\ e.ref = s =>
                /\ amount # 0 /\ e.lines = lines /\ <<type, s>> \notin pending
      PROVE  Accounted(s, type, amount)
  <2>1. CASE amount = 0
    <3>1. About(journal, {type}, {s}) = {}
      BY <1>3, <2>1 DEF About
    <3> QED
      BY <1>3, <2>1, <3>1 DEF Accounted
  <2>2. CASE amount # 0
    <3>1. About(journal, {type}, {s}) = {} <=> <<type, s>> \in pending
      BY <1>3, <2>2 DEF About, Has
    <3>2. ASSUME About(journal, {type}, {s}) # {}
          PROVE  Net(About(journal, {type}, {s}), {"1040"}) = amount
      <4>1. Has(type, s) /\ Single(type) /\ JournalSound
        BY <3>2 DEF About, Has, Single, SessionTypes, DeskInv
      <4>2. PICK e \in journal : /\ e.type = type /\ e.ref = s /\ IsLines(e.lines)
                                 /\ About(journal, {type}, {s}) = {e}
        BY <4>1, TheEntry
      <4>3. e.lines = lines
        BY <1>3, <4>2
      <4>4. Net({e}, {"1040"}) = Part(e.lines, {"1040"})
        BY <4>2, NetOfOne
      <4>5. Part(Transfer("1040", "1000", amount), {"1040"}) = amount
        BY <1>1, PartOfTransfer
      <4>6. Part(Transfer("1040", "2300", amount), {"1040"}) = amount
        BY <1>1, PartOfTransfer
      <4>7. Part(lines, {"1040"}) = amount
        BY <1>3, <4>5, <4>6, Zenon
      <4> QED
        BY <4>2, <4>3, <4>4, <4>7
    <3>3. (About(journal, {type}, {s}) = {}) = (<<type, s>> \in pending)
      <4>1. CASE <<type, s>> \in pending
        BY <3>1, <4>1
      <4>2. CASE <<type, s>> \notin pending
        BY <3>1, <4>2
      <4> QED
        BY <4>1, <4>2
    <3>4. \/ About(journal, {type}, {s}) = {}
          \/ Net(About(journal, {type}, {s}), {"1040"}) = amount
      BY <3>2
    <3> QED
      BY <2>2, <3>3, <3>4 DEF Accounted
  <2> QED
    BY <2>1, <2>2
<1>4. Accounted(s, "cash_session_open", session[s].float)
  <2>1. \A e \in journal : e.type = "cash_session_open" /\ e.ref = s =>
           /\ session[s].float # 0 /\ e.lines = FloatLines(session[s].float)
           /\ <<"cash_session_open", s>> \notin pending
    BY DEF DeskInv, SessionBooks, OfSession
  <2>2. /\ session[s].float # 0 => \/ Has("cash_session_open", s)
                                   \/ <<"cash_session_open", s>> \in pending
        /\ <<"cash_session_open", s>> \in pending => session[s].float # 0
    BY DEF DeskInv, SessionBooks
  <2> QED
    BY <1>2, <1>3, <2>1, <2>2 DEF FloatLines, SessionTypes
<1>5. Accounted(s, "cash_session_close", session[s].variance)
  <2>1. \A e \in journal : e.type = "cash_session_close" /\ e.ref = s =>
           /\ session[s].variance # 0 /\ e.lines = VarianceLines(session[s].variance)
           /\ <<"cash_session_close", s>> \notin pending
    BY DEF DeskInv, SessionBooks, OfSession
  <2>2. /\ session[s].variance # 0 => \/ Has("cash_session_close", s)
                                      \/ <<"cash_session_close", s>> \in pending
        /\ <<"cash_session_close", s>> \in pending => session[s].variance # 0
    BY DEF DeskInv, SessionBooks
  <2> QED
    BY <1>2, <1>3, <2>1, <2>2 DEF VarianceLines, SessionTypes
<1> QED
  BY <1>4, <1>5

LEMMA TillsFromInv == DeskInv => TillsAccounted
<1> SUFFICES ASSUME DeskInv PROVE TillsAccounted
  OBVIOUS
<1>1. \A s \in Session : Due(s) = session[s].float + Tendered(sale, s)
  BY DEF Due, Tendered
<1>2. ASSUME \A r, s \in OpenSessions : r = s PROVE Cardinality(OpenSessions) <= 1
  <2>1. CASE OpenSessions = {}
    BY <2>1, FS_EmptySet
  <2>2. CASE OpenSessions # {}
    <3>1. PICK s : OpenSessions = {s}
      BY <1>2, <2>2
    <3>2. Cardinality({s}) = 1
      BY FS_Singleton
    <3> HIDE DEF OpenSessions
    <3> QED
      BY <3>1, <3>2
  <2> QED
    BY <2>1, <2>2
<1>3. "open" \notin raced => Cardinality(OpenSessions) <= 1
  BY <1>2 DEF DeskInv, TillsTell
<1>4. ASSUME NEW s \in Session
      PROVE  /\ s \notin raced => session[s].expected = Due(s)
             /\ session[s].status = "closed" /\ s \notin raced \cup late =>
                   session[s].variance = session[s].counted - Due(s)
  <2> HIDE DEF Due, Tendered
  <2> QED
    BY <1>1 DEF DeskInv, TillsTell
<1>5. \A s \in Session : /\ Accounted(s, "cash_session_open", session[s].float)
                         /\ Accounted(s, "cash_session_close", session[s].variance)
  BY SessionAccounted
<1> HIDE DEF Due, Accounted
<1> QED
  BY <1>3, <1>4, <1>5 DEF TillsAccounted

\* A cashier has one open session; its expected cash is what the standing sales
\* left in the till, and its float and variance are posted or noted as due: the
\* handlers of routers/cash_sessions.py and the cash sales of transactions.py.
THEOREM TillsAgree == Spec => []TillsAccounted
  BY DeskHolds, TillsFromInv, PTL

-----------------------------------------------------------------------------
(* Vouchers.                                                               *)

LEMMA MissingAreNoted ==
    ASSUME DeskInv
    PROVE  Missing = {s \in Session : <<"cash_session_close", s>> \in pending}
<1>1. \A v \in Voucher : voucher[v].status = "live" => About(journal, {"expense_voucher"}, {v}) # {}
  BY DEF DeskInv, VoucherBooks, Has, About
<1>2. \A p \in Payment : payment[p] # NoPayment => About(journal, {"customer_payment"}, {p}) # {}
  BY DEF DeskInv, PaymentBooks, Has, About
<1>3. ASSUME NEW s \in Session
      PROVE  (/\ session[s].status = "closed" /\ session[s].variance # 0
              /\ About(journal, {"cash_session_close"}, {s}) = {})
                <=> <<"cash_session_close", s>> \in pending
  <2>1. ASSUME NEW e \in journal, e.type = "cash_session_close", e.ref = s
        PROVE  <<"cash_session_close", s>> \notin pending
    BY <2>1 DEF DeskInv, SessionBooks, OfSession
  <2>2. /\ session[s].status # "closed" => session[s].variance = 0
        /\ session[s].variance # 0 =>
              Has("cash_session_close", s) \/ <<"cash_session_close", s>> \in pending
        /\ <<"cash_session_close", s>> \in pending => session[s].variance # 0
    BY DEF DeskInv, SessionBooks
  <2> QED
    BY <2>1, <2>2 DEF About, Has
<1> QED
  BY <1>1, <1>2, <1>3 DEF Missing

LEMMA VoucherNets ==
    ASSUME DeskInv, NEW v \in Voucher, voucher[v].status # "none", v \notin raced
    PROVE  Net(About(journal, {"expense_voucher", "expense_void"}, {v}), {voucher[v].account})
              = IF voucher[v].status = "live" THEN voucher[v].amount ELSE 0
<1>1. PICK a, x : a = voucher[v].account /\ x = voucher[v].amount
  OBVIOUS
<1>2. /\ a \in AccountCode /\ "1000" \in AccountCode /\ x \in Int
      /\ voucher[v].status \in {"live", "void"}
  BY <1>1 DEF DeskInv, TypeOK, VoucherRow, VoucherBooks, AccountCode, Asset, Result
<1>3. PICK l : l = VoucherLines(a, x)
  OBVIOUS
<1>4. IsLines(l) /\ Part(l, {a}) = x
  BY <1>2, <1>3, TransferLines, PartOfTransfer DEF VoucherLines
<1>5. JournalSound /\ Has("expense_voucher", v)
  BY DEF DeskInv, VoucherBooks
<1>6. PICK e \in journal : /\ e.type = "expense_voucher" /\ e.ref = v /\ IsLines(e.lines)
                           /\ About(journal, {"expense_voucher"}, {v}) = {e}
  <2>1. Single("expense_voucher")
    BY DEF Single
  <2> QED
    BY <1>5, <2>1, TheEntry
<1>7. e.lines = l
  BY <1>1, <1>3, <1>6 DEF DeskInv, VoucherBooks, OfVoucher
<1>8. About(journal, {"expense_voucher", "expense_void"}, {v}) = {e} \cup Reversals(v)
  <2>1. About(journal, {"expense_voucher", "expense_void"}, {v})
           = About(journal, {"expense_voucher"}, {v}) \cup Reversals(v)
    BY DEF About, Reversals
  <2> QED
    BY <1>6, <2>1
<1>9. Net({e}, {a}) = x
  BY <1>4, <1>6, <1>7, NetOfOne
<1>10. CASE voucher[v].status = "live"
  <2>1. Reversals(v) = {}
    BY <1>10 DEF DeskInv, VoucherBooks, OfVoucher, Reversals, About
  <2> QED
    BY <1>1, <1>8, <1>9, <1>10, <2>1
<1>11. CASE voucher[v].status = "void"
  <2>1. PICK r \in Reversals(v) : Reversals(v) = {r}
    BY <1>11 DEF DeskInv, VoucherBooks, Has, Reversals, About
  <2>2. r \in journal /\ r.type = "expense_void" /\ r.ref = v
    BY DEF Reversals, About
  <2>3. r.lines = Reversal(l)
    BY <1>1, <1>3, <2>2 DEF DeskInv, VoucherBooks, OfVoucher
  <2>4. IsLines(Reversal(l)) /\ Part(Reversal(l), {a}) = -x
    BY <1>4, PartReversed
  <2>5. IsLines(r.lines) /\ Part(r.lines, {a}) = -x
    BY <2>3, <2>4
  <2>6. AreEntries({e}) /\ r \notin {e}
    BY <1>6, <2>2, FS_Singleton DEF AreEntries
  <2>7. Net({e} \cup {r}, {a}) = Net({e}, {a}) + Part(r.lines, {a})
    BY <2>5, <2>6, NetAdds
  <2>8. Net({e} \cup {r}, {a}) = 0
    BY <1>2, <1>9, <2>5, <2>7
  <2> QED
    BY <1>1, <1>8, <1>11, <2>1, <2>8
<1> QED
  BY <1>2, <1>10, <1>11

LEMMA VouchersFromInv == DeskInv => VouchersNetOut
  BY MissingAreNoted, VoucherNets DEF VouchersNetOut

\* A voucher that stands is in its account once, a void one not at all, and no
\* document is without its entry but the closings noted as due: routers/expenses.py
\* and check_finance_control_integrity.
THEOREM VouchersAgree == Spec => []VouchersNetOut
  BY DeskHolds, VouchersFromInv, PTL

-----------------------------------------------------------------------------
(* The entries of sales.                                                   *)

\* Entries that count a value for some documents and nothing for the others.
LEMMA NetCounts ==
    ASSUME NEW S, IsFiniteSet(S), NEW E, AreEntries(E), \A e \in E : e.ref \in S, NEW A,
           NEW C \in SUBSET S, NEW v, \A r \in C : v[r] \in Int,
           \A r \in S : Net(Of(E, r), A) = IF r \in C THEN v[r] ELSE 0
    PROVE  Net(E, A) = SumFunctionOnSet(v, C)
<1> DEFINE f == [r \in S |-> Net(Of(E, r), A)]
<1>1. Net(E, A) = SumFunctionOnSet(f, S)
  BY NetByRef
<1>2. /\ \A r \in S : f[r] \in Int
      /\ \A r \in S \ C : f[r] = 0
      /\ \A r \in C : f[r] = v[r]
  OBVIOUS
<1> HIDE DEF f
<1>3. C \subseteq S /\ IsFiniteSet(C)
  BY FS_Subset
<1>4. SumFunctionOnSet(f, S) = SumFunctionOnSet(f, C)
  BY <1>2, <1>3, SumSkipsZeros
<1>5. SumFunctionOnSet(f, C) = SumFunctionOnSet(v, C)
  BY <1>2, <1>3, SumSame
<1> QED
  BY <1>1, <1>4, <1>5

LEMMA PartsOfSale ==
    ASSUME NEW b \in BasketRow
    PROVE  /\ IsLines(SaleLines(b))
           /\ Part(SaleLines(b), {"1100"}) = IF b.method = "credit" THEN b.total ELSE 0
           /\ Part(SaleLines(b), {"2100"}) = -b.vat
           /\ Part(SaleLines(b), {"4000", "2100"}) = -b.total
<1>1. PICK p : p = PaidInto[b.method]
  OBVIOUS
<1>2. /\ p \in {"1000", "1010", "1100", "1400"}
      /\ p = "1100" <=> b.method = "credit"
  BY <1>1 DEF BasketRow, PaidInto
<1>3. b.total \in Nat /\ b.vat \in Nat
  BY DEF BasketRow
<1>4. PICK l : l = SaleLines(b)
  OBVIOUS
<1>5. /\ DOMAIN l = {p, "4000", "2100"}
      /\ l["4000"] = b.vat - b.total /\ l["2100"] = -b.vat /\ l[p] = b.total
  BY <1>1, <1>2, <1>4 DEF SaleLines
<1>6. IsLines(l)
  BY <1>4, DocumentLines
<1>7. Part(l, {"4000"}) = b.vat - b.total /\ Part(l, {"2100"}) = -b.vat
  BY <1>5, <1>6, PartOfOne
<1>8. Part(l, {"4000"} \cup {"2100"}) = Part(l, {"4000"}) + Part(l, {"2100"})
  BY <1>6, PartJoins
<1>9. {"4000"} \cup {"2100"} = {"4000", "2100"}
  OBVIOUS
<1>10. Part(l, {"4000", "2100"}) = -b.total
  BY <1>3, <1>7, <1>8, <1>9
<1>11. Part(l, {"1100"}) = IF b.method = "credit" THEN b.total ELSE 0
  <2>1. CASE b.method = "credit"
    <3>1. "1100" \in DOMAIN l /\ l["1100"] = b.total
      BY <1>2, <1>5, <2>1
    <3> QED
      BY <1>6, <2>1, <3>1, PartOfOne
  <2>2. CASE b.method # "credit"
    <3>1. DOMAIN l \cap {"1100"} = {}
      BY <1>2, <1>5, <2>2
    <3> QED
      BY <2>2, <3>1, PartOfNone
  <2> QED
    BY <2>1, <2>2
<1> QED
  BY <1>4, <1>6, <1>7, <1>10, <1>11

SaleEntries(t) == About(journal, {"transaction", "void"}, {t})

\* A sale that was not crossed has one entry, and one reversal at most.
LEMMA NetOfSale ==
    ASSUME DeskInv, NEW t \in Sale, t \notin crossed, NEW A
    PROVE  Net(SaleEntries(t), A) = IF sale[t].status = "completed" \/ t \in Unreversed
                                    THEN Part(SaleLines(sale[t].basket), A) ELSE 0
<1>1. JournalSound /\ SaleBooks /\ sale[t].basket \in BasketRow
  BY DEF DeskInv, TypeOK, SaleRow
<1>2. PICK l : l = SaleLines(sale[t].basket)
  OBVIOUS
<1>3. IsLines(l) /\ Part(l, A) \in Int
  BY <1>1, <1>2, PartsOfSale, PartInt
<1>4. SaleEntries(t) = About(journal, {"transaction"}, {t}) \cup About(journal, {"void"}, {t})
  BY DEF SaleEntries, About
<1>5. t \in Unreversed <=> sale[t].status = "voided" /\ Has("transaction", t) /\ ~Has("void", t)
  BY DEF Unreversed, Originals, Has, About
<1>6. /\ Has("void", t) => Has("transaction", t) /\ sale[t].status = "voided"
      /\ Has("transaction", t) => sale[t].status \in {"completed", "voided"}
      /\ sale[t].status = "completed" => Has("transaction", t)
      /\ \A e, f \in About(journal, {"transaction"}, {t}) : e = f
  BY <1>1 DEF SaleBooks, OfSale, Has, Originals
<1>7. \A type : ~Has(type, t) => About(journal, {type}, {t}) = {}
  BY DEF Has, About
<1>8. CASE ~Has("transaction", t)
  <2>1. SaleEntries(t) = {}
    BY <1>4, <1>6, <1>7, <1>8
  <2> QED
    BY <1>5, <1>6, <1>8, <2>1, NetOfNone
<1>9. CASE Has("transaction", t)
  <2>1. PICK e \in journal : /\ e.type = "transaction" /\ e.ref = t /\ IsLines(e.lines)
                             /\ About(journal, {"transaction"}, {t}) = {e}
    BY <1>1, <1>6, <1>9, TheEntry
  <2>2. e.lines = l
    BY <1>1, <1>2, <2>1 DEF SaleBooks, OfSale
  <2>3. Net({e}, A) = Part(l, A)
    BY <2>1, <2>2, NetOfOne
  <2>4. CASE ~Has("void", t)
    <3>1. SaleEntries(t) = {e}
      BY <1>4, <1>7, <2>1, <2>4
    <3> QED
      BY <1>2, <1>5, <1>6, <1>9, <2>3, <2>4, <3>1
  <2>5. CASE Has("void", t)
    <3>1. PICK r \in journal : /\ r.type = "void" /\ r.ref = t /\ IsLines(r.lines)
                               /\ About(journal, {"void"}, {t}) = {r}
      <4>1. Single("void")
        BY DEF Single
      <4> QED
        BY <1>1, <2>5, <4>1, TheEntry
    <3>2. r.lines = Reversal(l)
      BY <1>1, <1>2, <3>1 DEF SaleBooks, OfSale
    <3>3. Part(r.lines, A) = -Part(l, A)
      BY <1>3, <3>2, PartReversed
    <3>4. AreEntries({e}) /\ r \notin {e}
      BY <2>1, <3>1, FS_Singleton DEF AreEntries
    <3>5. Net({e} \cup {r}, A) = Net({e}, A) + Part(r.lines, A)
      BY <3>1, <3>4, NetAdds
    <3>6. Net({e} \cup {r}, A) = 0
      <4>1. PICK k : k = Part(l, A)
        OBVIOUS
      <4>2. k \in Int /\ Net({e}, A) = k /\ Part(r.lines, A) = -k
        BY <1>3, <2>3, <3>3, <4>1
      <4> QED
        BY <3>5, <4>2
    <3> QED
      BY <1>4, <1>5, <1>6, <2>1, <2>5, <3>1, <3>6
  <2> QED
    BY <2>4, <2>5
<1> QED
  BY <1>8, <1>9

-----------------------------------------------------------------------------
(* The customers' accounts.                                                *)

LEMMA OwedIsCharged ==
    ASSUME DeskInv, NEW c \in Customer
    PROVE  /\ Paid(c) \in Nat /\ Paid(c) = PaidBy(payment, c)
           /\ Statement(Owed(c), Paid(c)) = Charged(sale, c, "credit") - Paid(c)
           /\ Charged(sale, c, "credit") \in Int
           /\ Gross(sale, SalesOf(c, "store_credit")) = Charged(sale, c, "store_credit")
<1>1. IsFiniteSet(Sale) /\ Sale \subseteq Nat /\ IsFiniteSet(Payment)
  BY CashDeskAssumption
<1>2. IsFiniteSet(SalesOf(c, "credit")) /\ SalesOf(c, "credit") \subseteq Sale
  BY <1>1, FS_Subset DEF SalesOf, CompletedIn
<1>4. \A t \in Sale : sale[t].basket.total \in Nat
  BY DEF DeskInv, TypeOK, SaleRow, BasketRow
<1>5. Paid(c) = PaidBy(payment, c)
  BY DEF Paid, PaidBy, PaymentsOf
<1>6. Paid(c) \in Nat
  <2> DEFINE f == [p \in PaymentsOf(c) |-> payment[p].amount]
  <2>1. \A p \in PaymentsOf(c) : f[p] \in Nat
    BY DEF DeskInv, TypeOK, PaymentRow, PaymentsOf
  <2>2. IsFiniteSet(PaymentsOf(c))
    BY <1>1, FS_Subset DEF PaymentsOf
  <2>3. Paid(c) = SumFunctionOnSet(f, PaymentsOf(c))
    BY DEF Paid, SumOver
  <2> HIDE DEF f
  <2> QED
    BY <2>1, <2>2, <2>3, SumNat
<1>7. Statement(Owed(c), Paid(c)) = Charged(sale, c, "credit") - Paid(c)
  <2>1. SumFunction(Owed(c)) = SumFunctionOnSet(Owed(c), SalesOf(c, "credit"))
    BY DEF SumFunction, Owed
  <2>2. Charged(sale, c, "credit") = SumFunctionOnSet(Owed(c), SalesOf(c, "credit"))
    BY DEF Charged, SalesOf, SumOver, Owed
  <2> QED
    BY <2>1, <2>2 DEF Statement
<1>8. Gross(sale, SalesOf(c, "store_credit")) = Charged(sale, c, "store_credit")
  BY DEF Gross, Charged, SalesOf
<1>9. Charged(sale, c, "credit") \in Int
  <2> DEFINE g == [t \in SalesOf(c, "credit") |-> sale[t].basket.total]
  <2>1. \A t \in SalesOf(c, "credit") : g[t] \in Int
    BY <1>2, <1>4
  <2>2. Charged(sale, c, "credit") = SumFunctionOnSet(g, SalesOf(c, "credit"))
    BY DEF Charged, SalesOf, SumOver
  <2> HIDE DEF g
  <2> QED
    BY <1>2, <2>1, <2>2, SumInt
<1> QED
  BY <1>5, <1>6, <1>7, <1>8, <1>9

\* The entries of the payments of a customer take from the receivables what was paid.
LEMMA PaymentsInBooks ==
    ASSUME DeskInv, NEW c \in Customer
    PROVE  Net(About(journal, {"customer_payment"}, PaymentsOf(c)), {"1100"}) = -Paid(c)
<1> DEFINE E == About(journal, {"customer_payment"}, PaymentsOf(c))
           f == [p \in PaymentsOf(c) |-> payment[p].amount]
           v == [p \in PaymentsOf(c) |-> -payment[p].amount]
<1>1. IsFiniteSet(PaymentsOf(c))
  BY CashDeskAssumption, FS_Subset DEF PaymentsOf
<1>2. JournalSound /\ AreEntries(E) /\ \A e \in E : e.ref \in PaymentsOf(c)
  BY JournalEntries DEF DeskInv, About
<1>3. \A p \in PaymentsOf(c) : f[p] \in Int /\ v[p] = -f[p] /\ v[p] \in Int
  BY DEF DeskInv, TypeOK, PaymentRow, PaymentsOf
<1>4. ASSUME NEW p \in PaymentsOf(c) PROVE Net(Of(E, p), {"1100"}) = v[p]
  <2>1. p \in Payment /\ payment[p].customer = c /\ payment[p] # NoPayment
    BY CashDeskAssumption DEF PaymentsOf, NoPayment
  <2>2. Has("customer_payment", p)
    BY <2>1 DEF DeskInv, PaymentBooks
  <2>3. PICK e \in journal : /\ e.type = "customer_payment" /\ e.ref = p /\ IsLines(e.lines)
                             /\ About(journal, {"customer_payment"}, {p}) = {e}
    <3>1. Single("customer_payment")
      BY DEF Single
    <3> QED
      BY <1>2, <2>2, <3>1, TheEntry
  <2>4. Of(E, p) = {e}
    BY <2>3 DEF Of, About
  <2>5. PICK x : x = payment[p].amount
    OBVIOUS
  <2>6. e.lines = Transfer("1000", "1100", x)
    BY <2>3, <2>5 DEF DeskInv, PaymentBooks, OfPayment, PaymentLines
  <2>7. "1000" \in AccountCode /\ "1100" \in AccountCode /\ x \in Int
    BY <1>3, <2>5 DEF AccountCode, Asset
  <2>8. Part(Transfer("1000", "1100", x), {"1100"}) = -x
    BY <2>7, PartOfTransfer
  <2>9. Net({e}, {"1100"}) = -x
    BY <2>3, <2>6, <2>8, NetOfOne
  <2> QED
    BY <2>4, <2>5, <2>9
<1>5. Paid(c) = SumFunctionOnSet(f, PaymentsOf(c))
  BY DEF Paid, SumOver
<1>6. PaymentsOf(c) \in SUBSET PaymentsOf(c)
  OBVIOUS
<1> HIDE DEF E, f, v
<1>7. \A p \in PaymentsOf(c) : Net(Of(E, p), {"1100"}) = IF p \in PaymentsOf(c) THEN v[p] ELSE 0
  BY <1>4
<1>8. Net(E, {"1100"}) = SumFunctionOnSet(v, PaymentsOf(c))
  BY <1>1, <1>2, <1>3, <1>6, <1>7, NetCounts
<1>9. SumFunctionOnSet(v, PaymentsOf(c)) = -SumFunctionOnSet(f, PaymentsOf(c))
  BY <1>1, <1>3, SumTurns
<1> QED
  BY <1>5, <1>8, <1>9 DEF E

\* The entries of the sales of a customer charge the receivables with the credit sales.
LEMMA SalesInBooks ==
    ASSUME DeskInv, NEW c \in Customer, \A t \in Unreversed : sale[t].customer # c
    PROVE  Net(About(journal, {"transaction", "void"}, {t \in Sale : sale[t].customer = c}), {"1100"})
              = Charged(sale, c, "credit")
<1> DEFINE S == {t \in Sale : sale[t].customer = c}
           E == About(journal, {"transaction", "void"}, S)
           C == SalesOf(c, "credit")
           v == [t \in C |-> sale[t].basket.total]
<1>1. IsFiniteSet(S) /\ C \in SUBSET S
  BY CashDeskAssumption, FS_Subset DEF SalesOf, CompletedIn
<1>2. AreEntries(E) /\ \A e \in E : e.ref \in S
  BY JournalEntries DEF DeskInv, About
<1>3. \A t \in C : v[t] \in Int
  BY <1>1 DEF DeskInv, TypeOK, SaleRow, BasketRow
<1>4. ASSUME NEW t \in S
      PROVE  Net(Of(E, t), {"1100"}) = IF t \in C THEN v[t] ELSE 0
  <2>1. t \in Sale /\ t \notin Unreversed /\ sale[t].basket \in BasketRow
    BY DEF DeskInv, TypeOK, SaleRow
  <2>6. t \notin crossed
    BY CashDeskAssumption DEF DeskInv, SaleBooks, SaleShape
  <2>2. Of(E, t) = SaleEntries(t)
    BY DEF Of, About, SaleEntries
  <2>3. Net(SaleEntries(t), {"1100"})
           = IF sale[t].status = "completed" THEN Part(SaleLines(sale[t].basket), {"1100"}) ELSE 0
    BY <2>1, <2>6, NetOfSale
  <2>4. Part(SaleLines(sale[t].basket), {"1100"})
           = IF sale[t].basket.method = "credit" THEN sale[t].basket.total ELSE 0
    BY <2>1, PartsOfSale
  <2>5. t \in C <=> sale[t].status = "completed" /\ sale[t].basket.method = "credit"
    BY <2>1 DEF SalesOf, CompletedIn
  <2> QED
    BY <2>2, <2>3, <2>4, <2>5
<1>5. Charged(sale, c, "credit") = SumFunctionOnSet(v, C)
  BY DEF Charged, SumOver, SalesOf
<1> HIDE DEF S, E, C, v
<1>6. Net(E, {"1100"}) = SumFunctionOnSet(v, C)
  BY <1>1, <1>2, <1>3, <1>4, NetCounts
<1> QED
  BY <1>5, <1>6 DEF E, S

LEMMA CustomersFromInv == DeskInv => CustomersAccounted
<1> SUFFICES ASSUME DeskInv, NEW c \in Customer
    PROVE  LET due == Statement(Owed(c), Paid(c)) IN
           /\ Limit > 0 => customer[c].balance <= Limit
           /\ c \notin edited =>
                 /\ customer[c].balance = due + waived[c]
                 /\ customer[c].wallet = Wallet - Gross(sale, SalesOf(c, "store_credit"))
           /\ (\A t \in Unreversed : sale[t].customer # c) => Receivable(c) = due
  BY DEF CustomersAccounted
<1>1. /\ Paid(c) \in Nat /\ Paid(c) = PaidBy(payment, c)
      /\ Statement(Owed(c), Paid(c)) = Charged(sale, c, "credit") - Paid(c)
      /\ Charged(sale, c, "credit") \in Int
      /\ Gross(sale, SalesOf(c, "store_credit")) = Charged(sale, c, "store_credit")
  BY OwedIsCharged
<1>3. /\ Limit > 0 => customer[c].balance <= Limit
      /\ c \notin edited =>
            /\ customer[c].balance = Charged(sale, c, "credit") - PaidBy(payment, c) + waived[c]
            /\ customer[c].wallet = Wallet - Charged(sale, c, "store_credit")
  BY DEF DeskInv, CustomersTell
<1>4. ASSUME \A t \in Unreversed : sale[t].customer # c
      PROVE  Receivable(c) = Charged(sale, c, "credit") - Paid(c)
  <2>1. PICK E, F : /\ E = About(journal, {"customer_payment"}, PaymentsOf(c))
                    /\ F = About(journal, {"transaction", "void"}, {t \in Sale : sale[t].customer = c})
    OBVIOUS
  <2>2. AreEntries(E) /\ AreEntries(F)
    BY <2>1, JournalEntries DEF DeskInv
  <2>3. E \cap F = {}
    BY <2>1 DEF About
  <2>4. Net(E \cup F, {"1100"}) = Net(E, {"1100"}) + Net(F, {"1100"})
    BY <2>2, <2>3, NetJoins
  <2>5. Net(E, {"1100"}) = -Paid(c)
    BY <2>1, PaymentsInBooks
  <2>6. Net(F, {"1100"}) = Charged(sale, c, "credit")
    BY <1>4, <2>1, SalesInBooks
  <2>7. Receivable(c) = Net(E \cup F, {"1100"})
    BY <2>1 DEF Receivable
  <2> QED
    BY <1>1, <2>4, <2>5, <2>6, <2>7
<1> QED
  BY <1>1, <1>3, <1>4

\* What a customer owes is the same on its row, on the statement and in the
\* receivables of the ledger: the handlers of customers.py and transactions.py
\* against get_customer_statement.
THEOREM CustomersAgree == Spec => []CustomersAccounted
  BY DeskHolds, CustomersFromInv, PTL

-----------------------------------------------------------------------------
(* The statements of the ledger.                                           *)

\* Entries with the same part on two sets of accounts.
LEMMA NetSame ==
    ASSUME NEW E, AreEntries(E), NEW A, NEW B,
           \A e \in E : DOMAIN e.lines \cap A = DOMAIN e.lines \cap B
    PROVE  Net(E, A) = Net(E, B)
<1>1. \A e \in E : Part(e.lines, A) = Part(e.lines, B)
  BY DEF Part
<1>2. [e \in E |-> Part(e.lines, A)] = [e \in E |-> Part(e.lines, B)]
  BY <1>1
<1>3. /\ Net(E, A) = SumFunctionOnSet([e \in E |-> Part(e.lines, A)], E)
      /\ Net(E, B) = SumFunctionOnSet([e \in E |-> Part(e.lines, B)], E)
  BY NetIsSum
<1> QED
  BY <1>2, <1>3

\* Entries that add up do so over all accounts.
LEMMA NetOfAll ==
    ASSUME NEW E, AreEntries(E), \A e \in E : Balances(e.lines), NEW A,
           \A e \in E : DOMAIN e.lines \subseteq A
    PROVE  Net(E, A) = 0
<1>1. \A e \in E : Part(e.lines, A) = 0
  BY PartOfAll DEF AreEntries
<1> QED
  BY <1>1, NetOfZeros

\* The net of some accounts is the sum of the nets of each.
LEMMA NetByAccount ==
    ASSUME NEW E, AreEntries(E), NEW A \in SUBSET AccountCode
    PROVE  SumFunctionOnSet([a \in A |-> Net(E, {a})], A) = Net(E, A)
<1> DEFINE f == [a \in A |-> Net(E, {a})]
           Adds2(T) == SumFunctionOnSet(f, T) = Net(E, T)
           B == {T \in SUBSET A : ~Adds2(T)}
<1>1. IsFiniteSet(A) /\ \A T \in SUBSET A : IsFiniteSet(T)
  BY AccountsAreFinite, FS_Subset
<1>2. \A a \in A : f[a] \in Int /\ f[a] = Net(E, {a})
  BY NetIsSum
<1>3. ASSUME NEW T \in SUBSET A, T # {}, \A R \in SUBSET T : R # T => R \notin B
      PROVE  Adds2(T)
  <2>1. PICK a \in T : TRUE
    BY <1>3
  <2>2. Adds2(T \ {a})
    BY <1>3, <2>1
  <2>3. SumFunctionOnSet(f, T) = f[a] + SumFunctionOnSet(f, T \ {a})
    <3> HIDE DEF f
    <3> QED
      BY <1>1, <1>2, <2>1, SumSplits
  <2>4. {a} \cap (T \ {a}) = {} /\ {a} \cup (T \ {a}) = T
    OBVIOUS
  <2>5. Net(E, {a} \cup (T \ {a})) = Net(E, {a}) + Net(E, T \ {a})
    BY <2>4, NetOfAccounts
  <2>6. f[a] = Net(E, {a})
    BY <1>2
  <2> HIDE DEF f
  <2> QED
    BY <2>2, <2>3, <2>4, <2>5, <2>6
<1>4. Adds2({})
  <2>1. \A e \in E : Part(e.lines, {}) = 0
    BY PartOfNone
  <2>2. Net(E, {}) = 0
    BY <2>1, NetOfZeros
  <2> QED
    BY <2>2, SumOfNone
<1>5. B = {}
  <2> SUFFICES ASSUME B # {} PROVE FALSE
    OBVIOUS
  <2>1. B \subseteq SUBSET A
    OBVIOUS
  <2>2. PICK T \in B : \A R \in SUBSET T : R # T => R \notin B
    <3> HIDE DEF B
    <3> QED
      BY <1>1, <2>1, LeastBad
  <2>3. T \in SUBSET A /\ ~Adds2(T)
    OBVIOUS
  <2> HIDE DEF B, Adds2
  <2> QED
    BY <1>3, <1>4, <2>2, <2>3
<1> QED
  BY <1>5

LEMMA WholeJournal ==
    ASSUME DeskInv
    PROVE  /\ AreEntries(journal) /\ \A e \in journal : Balances(e.lines)
           /\ Between(journal, 0, Last) = journal
<1>1. JournalSound /\ AreEntries(journal)
  BY JournalEntries DEF DeskInv
<1>2. ASSUME NEW e \in journal PROVE Balances(e.lines) /\ e.day >= 0 /\ e.day <= Last
  <2>1. Balances(e.lines) /\ e.day \in Day
    BY <1>1, EntrySound
  <2>2. Day = 0 .. Last /\ Last \in Nat
    BY DaysOrdered
  <2> QED
    BY <2>1, <2>2
<1> QED
  BY <1>1, <1>2 DEF Between

\* No income and no expense is dated ahead when no voucher is: a payment moves
\* money between two assets.
LEMMA ResultUpToDate ==
    ASSUME DeskInv, \A v \in Voucher : voucher[v].day <= Today, NEW R \in SUBSET Result
    PROVE  Net(Between(journal, 0, Today), R) = Net(journal, R)
<1>1. PICK E, F : E = Between(journal, 0, Today) /\ F = journal \ E
  OBVIOUS
<1>2. E \cap F = {} /\ E \cup F = journal
  BY <1>1 DEF Between
<1>3. AreEntries(E) /\ AreEntries(F)
  BY <1>2, WholeJournal, EntriesWithin
<1>4. ASSUME NEW e \in F PROVE Part(e.lines, R) = 0
  <2>1. e \in journal /\ ~(e.day >= 0 /\ e.day <= Today)
    BY <1>1 DEF Between
  <2>2. e.day >= 0
    <3>1. e.day \in Day /\ Day = 0 .. Last /\ Last \in Nat
      BY <2>1, EntrySound, DaysOrdered DEF DeskInv
    <3> QED
      BY <3>1
  <2>3. DatedAhead(e.type)
    BY <2>1, <2>2, EntrySound DEF DeskInv
  <2>4. e.type = "expense_voucher" => e.ref \in Voucher /\ e.day = voucher[e.ref].day
    BY <2>1 DEF DeskInv, VoucherBooks, OfVoucher
  <2>5. e.type = "customer_payment"
    BY <2>1, <2>2, <2>3, <2>4 DEF DatedAhead
  <2>6. DOMAIN e.lines = {"1000", "1100"}
    BY <2>1, <2>5 DEF DeskInv, PaymentBooks, OfPayment, PaymentLines, Transfer
  <2>7. {"1000", "1100"} \cap R = {}
    BY BooksAssumption DEF Result, Asset
  <2> QED
    BY <2>6, <2>7, PartOfNone
<1>5. Net(F, R) = 0
  BY <1>3, <1>4, NetOfZeros
<1>6. Net(E \cup F, R) = Net(E, R) + Net(F, R)
  BY <1>2, <1>3, NetJoins
<1>7. Net(E, R) \in Int
  BY <1>3, NetIsSum
<1>8. PICK n : n = Net(E, R)
  OBVIOUS
<1>9. Net(E \cup F, R) = n
  BY <1>5, <1>6, <1>7, <1>8
<1> QED
  BY <1>1, <1>2, <1>8, <1>9

\* The ledgers of some accounts of one normal balance.
LEMMA LedgersNet ==
    ASSUME DeskInv, NEW B \in SUBSET AccountCode
    PROVE  /\ B \subseteq DebitNormal => Ledgers(B) = Net(journal, B)
           /\ B \cap DebitNormal = {} => Ledgers(B) = -Net(journal, B)
<1> DEFINE A == B \cap Touched(journal)
           f == [a \in A |-> Net(journal, {a})]
           g == [a \in A |-> AccountLedger(journal, a, 0, Last)]
<1>1. /\ AreEntries(journal) /\ Between(journal, 0, Last) = journal
      /\ A \in SUBSET AccountCode /\ IsFiniteSet(A) /\ A \subseteq B
  BY WholeJournal, AccountsAreFinite, FS_Subset
<1>8. Net(journal, A) = Net(journal, B)
  <2>1. \A e \in journal : DOMAIN e.lines \cap A = DOMAIN e.lines \cap B
    BY DEF Touched
  <2> HIDE DEF A
  <2> QED
    BY <1>1, <2>1, NetSame
<1>2. \A a \in A : f[a] \in Int
  BY <1>1, NetIsSum
<1>3. \A a \in A : g[a] = IF a \in DebitNormal THEN f[a] ELSE -f[a]
  BY <1>1 DEF AccountLedger
<1>4. Ledgers(B) = SumFunctionOnSet(g, A)
  BY DEF Ledgers, SumOver
<1> HIDE DEF A
<1>5. SumFunctionOnSet(f, A) = Net(journal, A)
  BY <1>1, NetByAccount
<1> HIDE DEF f, g
<1>6. ASSUME B \subseteq DebitNormal PROVE SumFunctionOnSet(g, A) = SumFunctionOnSet(f, A)
  <2>1. \A a \in A : g[a] = f[a]
    BY <1>1, <1>3, <1>6
  <2> QED
    BY <1>1, <2>1, SumSame
<1>7. ASSUME B \cap DebitNormal = {} PROVE SumFunctionOnSet(g, A) = -SumFunctionOnSet(f, A)
  <2>1. \A a \in A : f[a] \in Int /\ g[a] = -f[a]
    BY <1>1, <1>2, <1>3, <1>7
  <2> QED
    BY <1>1, <2>1, SumTurns
<1> QED
  BY <1>4, <1>5, <1>6, <1>7, <1>8

LEMMA BooksFromInv == DeskInv => BooksBalance
<1> SUFFICES ASSUME DeskInv PROVE BooksBalance
  OBVIOUS
<1>1. AreEntries(journal) /\ \A e \in journal : Balances(e.lines)
  BY WholeJournal
<1>2. \A e \in journal : DOMAIN e.lines \subseteq AccountCode
  BY <1>1 DEF AreEntries, IsLines
<1>3. Ledgers(DebitNormal) = Ledgers(AccountCode \ DebitNormal)
  <2>1. PICK D, R : D = DebitNormal /\ R = AccountCode \ DebitNormal
    OBVIOUS
  <2>2. D \subseteq AccountCode /\ D \cap R = {} /\ D \cup R = AccountCode /\ R \subseteq AccountCode
    BY <2>1 DEF DebitNormal
  <2>3. Ledgers(D) = Net(journal, D) /\ Ledgers(R) = -Net(journal, R)
    BY <2>1, <2>2, LedgersNet
  <2>4. Net(journal, D \cup R) = Net(journal, D) + Net(journal, R)
    BY <1>1, <2>2, NetOfAccounts
  <2>5. Net(journal, AccountCode) = 0
    BY <1>1, <1>2, NetOfAll
  <2>6. Net(journal, D) \in Int /\ Net(journal, R) \in Int
    BY <1>1, NetIsSum
  <2>7. PICK m, n : m = Net(journal, D) /\ n = Net(journal, R)
    OBVIOUS
  <2>8. m \in Int /\ n \in Int /\ m + n = 0 /\ Ledgers(D) = m /\ Ledgers(R) = -n
    BY <2>2, <2>3, <2>4, <2>5, <2>6, <2>7
  <2> QED
    BY <2>1, <2>8
<1>4. ASSUME inactive \cap Touched(journal) = {}
      PROVE  \A e \in journal : DOMAIN e.lines \cap inactive = {}
  BY <1>4 DEF Touched
<1>5. ASSUME inactive \cap Touched(journal) = {}
      PROVE  TrialBalance(journal, inactive) = 0
  <2>1. \A e \in journal : DOMAIN e.lines \subseteq AccountCode \ inactive
    BY <1>2, <1>4, <1>5
  <2>2. Net(journal, AccountCode \ inactive) = 0
    BY <1>1, <2>1, NetOfAll
  <2> QED
    BY <2>2 DEF TrialBalance
<1>6. ASSUME inactive \cap Touched(journal) = {}, \A v \in Voucher : voucher[v].day <= Today
      PROVE  BalanceSheet(journal, inactive, Today) = 0
  <2>1. PICK F, R : F = (Asset \cup Liability) \ inactive /\ R = Result \ inactive
    OBVIOUS
  <2>2. Net(Between(journal, 0, Today), R) = Net(journal, R)
    BY <1>6, <2>1, ResultUpToDate
  <2>3. (Asset \cup Liability) \cap Result = {}
    BY BooksAssumption DEF Asset, Liability, Result
  <2>4. F \cap R = {} /\ F \cup R = AccountCode \ inactive
    BY <2>1, <2>3 DEF AccountCode
  <2>5. Net(journal, F \cup R) = Net(journal, F) + Net(journal, R)
    BY <1>1, <2>4, NetOfAccounts
  <2>6. Net(journal, AccountCode \ inactive) = 0
    BY <1>5, <1>6 DEF TrialBalance
  <2>7. Net(journal, F) \in Int /\ Net(journal, R) \in Int
    BY <1>1, NetIsSum
  <2>8. BalanceSheet(journal, inactive, Today) = Net(journal, F) - (-Net(journal, R))
    BY <2>1, <2>2 DEF BalanceSheet, NetProfit
  <2>9. PICK m, n : m = Net(journal, F) /\ n = Net(journal, R)
    OBVIOUS
  <2>10. /\ m \in Int /\ n \in Int /\ m + n = 0
         /\ BalanceSheet(journal, inactive, Today) = m - (-n)
    BY <2>4, <2>5, <2>6, <2>7, <2>8, <2>9
  <2> QED
    BY <2>10
<1>7. inactive \cap Touched(journal) \subseteq raced \cup {voucher[v].account : v \in Voucher}
  BY DEF DeskInv, HiddenTell
<1> QED
  BY <1>3, <1>5, <1>6, <1>7 DEF BooksBalance

\* The account ledgers, the trial balance and the balance sheet of services/accounting.py
\* balance, and an account that is inactive has lines only for the two reasons named.
THEOREM StatementsBalance == Spec => []BooksBalance
  BY DeskHolds, BooksFromInv, PTL

-----------------------------------------------------------------------------
(* The reports of the sales.                                               *)

\* What the entries of some sales take from some accounts, when each entry of a
\* sale that counts takes an amount of it.
LEMMA SalesNet ==
    ASSUME DeskInv, NEW E \in SUBSET journal, \A e \in E : e.ref \in Sale,
           NEW A, NEW C \in SUBSET Sale, NEW w, \A t \in C : w[t] \in Int,
           \A t \in Sale : Net(Of(E, t), A) = IF t \in C THEN -w[t] ELSE 0
    PROVE  /\ -Net(E, A) = SumFunctionOnSet(w, C)
           /\ SumFunctionOnSet(w, C) \in Int
<1> DEFINE v == [t \in C |-> -w[t]]
<1>1. IsFiniteSet(Sale) /\ IsFiniteSet(C)
  BY CashDeskAssumption, FS_Subset
<1>2. AreEntries(E)
  BY JournalEntries, EntriesWithin DEF DeskInv
<1>3. \A t \in C : v[t] = -w[t] /\ v[t] \in Int /\ w[t] \in Int
  OBVIOUS
<1>4. \A t \in Sale : Net(Of(E, t), A) = IF t \in C THEN v[t] ELSE 0
  OBVIOUS
<1> HIDE DEF v
<1>5. Net(E, A) = SumFunctionOnSet(v, C)
  BY <1>1, <1>2, <1>3, <1>4, NetCounts
<1>6. SumFunctionOnSet(v, C) = -SumFunctionOnSet(w, C)
  BY <1>1, <1>3, SumTurns
<1>7. SumFunctionOnSet(w, C) \in Int
  BY <1>1, <1>3, SumInt
<1> QED
  BY <1>5, <1>6, <1>7

\* The sales that were not crossed, their entries, and the journal without the others'.
Calm == Sale \ crossed
SalesJournal == About(journal, {"transaction", "void"}, Calm)
CalmBooks == journal \ About(journal, {"transaction", "void"}, crossed)
Totals == [t \in Sale |-> sale[t].basket.total]
Vats == [t \in Sale |-> sale[t].basket.vat]

LEMMA ReportsSum ==
    ASSUME DeskInv, NEW C \in SUBSET Sale
    PROVE  /\ Gross(sale, C) = SumFunctionOnSet(Totals, C)
           /\ VatCollected(sale, C) = SumFunctionOnSet(Vats, C)
           /\ \A t \in Sale : Totals[t] \in Int /\ Vats[t] \in Int
<1>1. IsFiniteSet(C)
  BY CashDeskAssumption, FS_Subset
<1>2. \A t \in Sale : Totals[t] \in Int /\ Vats[t] \in Int
  BY DEF DeskInv, TypeOK, SaleRow, BasketRow, Totals, Vats
<1> DEFINE f == [t \in C |-> sale[t].basket.total]
           g == [t \in C |-> sale[t].basket.vat]
<1>3. \A t \in C : f[t] = Totals[t] /\ g[t] = Vats[t]
  BY DEF Totals, Vats
<1>4. Gross(sale, C) = SumFunctionOnSet(f, C) /\ VatCollected(sale, C) = SumFunctionOnSet(g, C)
  BY DEF Gross, VatCollected, SumOver
<1> HIDE DEF f, g
<1>5. SumFunctionOnSet(f, C) = SumFunctionOnSet(Totals, C)
  BY <1>1, <1>3, SumSame
<1>6. SumFunctionOnSet(g, C) = SumFunctionOnSet(Vats, C)
  BY <1>1, <1>3, SumSame
<1> QED
  BY <1>2, <1>4, <1>5, <1>6

\* A sale that counts takes its total from revenue and VAT, and its VAT from VAT.
LEMMA SaleTakes ==
    ASSUME DeskInv, NEW t \in Calm
    PROVE  LET counts == sale[t].status = "completed" \/ t \in Unreversed IN
           /\ Net(SaleEntries(t), {"4000", "2100"}) = IF counts THEN -Totals[t] ELSE 0
           /\ Net(SaleEntries(t), {"2100"}) = IF counts THEN -Vats[t] ELSE 0
<1>1. t \in Sale /\ t \notin crossed /\ sale[t].basket \in BasketRow
  BY DEF DeskInv, TypeOK, SaleRow, Calm
<1>2. /\ Part(SaleLines(sale[t].basket), {"2100"}) = -Vats[t]
      /\ Part(SaleLines(sale[t].basket), {"4000", "2100"}) = -Totals[t]
  BY <1>1, PartsOfSale DEF Totals, Vats
<1>3. \A A : Net(SaleEntries(t), A) = IF sale[t].status = "completed" \/ t \in Unreversed
                                      THEN Part(SaleLines(sale[t].basket), A) ELSE 0
  BY <1>1, NetOfSale
<1> QED
  BY <1>2, <1>3

\* Over all days the ledger has what the completed and the unreversed sales come to.
LEMMA SalesBooked ==
    ASSUME DeskInv
    PROVE  LET C == CompletedIn(sale, Calm)
               U == Unreversed \ crossed IN
           /\ Gross(sale, C) + Gross(sale, U) = -Net(SalesJournal, {"4000", "2100"})
           /\ VatCollected(sale, C) + VatCollected(sale, U) = -Net(SalesJournal, {"2100"})
<1> DEFINE C == CompletedIn(sale, Calm)
           U == Unreversed \ crossed
<1>1. /\ C \in SUBSET Sale /\ U \in SUBSET Sale /\ C \cup U \in SUBSET Sale /\ C \cap U = {}
      /\ C \cup U \subseteq Calm
  BY DEF CompletedIn, Unreversed, Calm
<1>2. IsFiniteSet(C) /\ IsFiniteSet(U)
  BY <1>1, CashDeskAssumption, FS_Subset
<1>3. SalesJournal \in SUBSET journal /\ \A e \in SalesJournal : e.ref \in Sale
  BY DEF SalesJournal, About, Calm
<1>4. \A t \in Calm : Of(SalesJournal, t) = SaleEntries(t)
  BY DEF Of, SalesJournal, SaleEntries, About
<1>5. \A t \in Calm : t \in C \cup U <=> sale[t].status = "completed" \/ t \in Unreversed
  BY DEF CompletedIn, Calm
<1>6. ASSUME NEW t \in Sale
      PROVE  /\ Net(Of(SalesJournal, t), {"4000", "2100"}) = IF t \in C \cup U THEN -Totals[t] ELSE 0
             /\ Net(Of(SalesJournal, t), {"2100"}) = IF t \in C \cup U THEN -Vats[t] ELSE 0
  <2>1. CASE t \in Calm
    BY <1>4, <1>5, <2>1, SaleTakes
  <2>2. CASE t \notin Calm
    <3>1. Of(SalesJournal, t) = {} /\ t \notin C \cup U
      BY <1>1, <2>2 DEF Of, SalesJournal, About
    <3> HIDE DEF C, U
    <3> QED
      BY <3>1, NetOfNone
  <2> QED
    BY <2>1, <2>2
<1>7. \A t \in Sale : Totals[t] \in Int /\ Vats[t] \in Int
  BY <1>1, ReportsSum
<1>8. /\ Gross(sale, C) = SumFunctionOnSet(Totals, C)
      /\ Gross(sale, U) = SumFunctionOnSet(Totals, U)
      /\ VatCollected(sale, C) = SumFunctionOnSet(Vats, C)
      /\ VatCollected(sale, U) = SumFunctionOnSet(Vats, U)
  BY <1>1, ReportsSum
<1> HIDE DEF C, U
<1>9. \A t \in C \cup U : Totals[t] \in Int /\ Vats[t] \in Int
  BY <1>1, <1>7
<1>10. /\ SumFunctionOnSet(Totals, C \cup U) = SumFunctionOnSet(Totals, C) + SumFunctionOnSet(Totals, U)
       /\ SumFunctionOnSet(Vats, C \cup U) = SumFunctionOnSet(Vats, C) + SumFunctionOnSet(Vats, U)
  BY <1>1, <1>2, <1>9, SumJoins
<1>11. -Net(SalesJournal, {"4000", "2100"}) = SumFunctionOnSet(Totals, C \cup U)
  BY <1>1, <1>3, <1>6, <1>9, SalesNet
<1>12. -Net(SalesJournal, {"2100"}) = SumFunctionOnSet(Vats, C \cup U)
  BY <1>1, <1>3, <1>6, <1>9, SalesNet
<1>13. /\ Gross(sale, C) + Gross(sale, U) = -Net(SalesJournal, {"4000", "2100"})
       /\ VatCollected(sale, C) + VatCollected(sale, U) = -Net(SalesJournal, {"2100"})
  BY <1>8, <1>10, <1>11, <1>12
<1> QED
  BY <1>13 DEF C, U

\* Only sales have VAT.
LEMMA VatIsOfSales ==
    ASSUME DeskInv
    PROVE  Net(CalmBooks, {"2100"}) = Net(SalesJournal, {"2100"})
<1>1. AreEntries(journal)
  BY WholeJournal
<1>2. PICK E, F : E = SalesJournal /\ F = CalmBooks \ SalesJournal
  OBVIOUS
<1>3. E \subseteq journal /\ F \subseteq journal /\ E \cap F = {} /\ E \cup F = CalmBooks
  BY <1>2 DEF SalesJournal, CalmBooks, Calm, About
<1>4. AreEntries(E) /\ AreEntries(F)
  BY <1>1, <1>3, EntriesWithin
<1>5. ASSUME NEW e \in F PROVE Part(e.lines, {"2100"}) = 0
  <2>1. e \in journal /\ e \notin SalesJournal /\ e.type \in EntryType
    BY <1>2, <1>3, <1>5, EntrySound DEF DeskInv
  <2>2. e.type \notin {"transaction", "void"}
    <3>1. e.ref \in crossed => e.type \notin {"transaction", "void"}
      BY <1>2, <1>5 DEF CalmBooks, About
    <3> QED
      BY <2>1, <3>1 DEF SalesJournal, Calm, About, DeskInv, SaleBooks, OfSale
  <2>3. \A code \in Expense : code # "2100"
    BY BooksAssumption DEF Liability
  <2>4. CASE e.type \in SessionTypes
    <3>1. OfSession(e)
      BY <2>1, <2>4 DEF SessionTypes, DeskInv, SessionBooks
    <3>2. PICK x, y : x = session[e.ref].float /\ y = session[e.ref].variance
      OBVIOUS
    <3>3. e.lines = FloatLines(x) \/ e.lines = VarianceLines(y)
      BY <3>1, <3>2 DEF OfSession
    <3>4. DOMAIN e.lines = {"1040", "1000"} \/ DOMAIN e.lines = {"1040", "2300"}
      BY <3>3 DEF FloatLines, VarianceLines, Transfer
    <3> QED
      BY <3>4, PartOfNone
  <2>5. CASE e.type = "customer_payment"
    BY <2>1, <2>5, PartOfNone DEF DeskInv, PaymentBooks, OfPayment, PaymentLines, Transfer
  <2>6. CASE e.type \in {"expense_voucher", "expense_void"}
    <3>1. OfVoucher(e)
      BY <2>1, <2>6 DEF DeskInv, VoucherBooks
    <3>2. PICK v, a, x : v = e.ref /\ a = voucher[v].account /\ x = voucher[v].amount
      OBVIOUS
    <3>3. v \in Voucher /\ voucher[v].status # "none"
      BY <3>1, <3>2 DEF OfVoucher
    <3>4. a \in Expense /\ a # "2100"
      BY <2>3, <3>2, <3>3 DEF DeskInv, VoucherBooks
    <3>5. e.lines = VoucherLines(a, x) \/ e.lines = Reversal(VoucherLines(a, x))
      BY <3>1, <3>2 DEF OfVoucher
    <3>6. DOMAIN e.lines = {a, "1000"}
      BY <3>5 DEF VoucherLines, Transfer, Reversal
    <3> QED
      BY <3>4, <3>6, PartOfNone
  <2> QED
    BY <2>1, <2>2, <2>4, <2>5, <2>6 DEF EntryType, SessionTypes
<1>6. Net(F, {"2100"}) = 0
  BY <1>4, <1>5, NetOfZeros
<1>7. Net(E \cup F, {"2100"}) = Net(E, {"2100"}) + Net(F, {"2100"})
  BY <1>3, <1>4, NetJoins
<1>8. PICK n : n = Net(E, {"2100"})
  OBVIOUS
<1>9. n \in Int
  BY <1>4, <1>8, NetIsSum
<1>10. Net(E \cup F, {"2100"}) = n
  BY <1>6, <1>7, <1>8, <1>9
<1> QED
  BY <1>2, <1>3, <1>8, <1>10

\* What the ledger has of the sales that were not crossed.
LEMMA CalmSales ==
    About(CalmBooks, {"transaction", "void"}, Sale) = SalesJournal
  BY DEF CalmBooks, SalesJournal, Calm, About

\* The reports of all days, and the ledger of all days.
LEMMA AllDays ==
    ASSUME DeskInv
    PROVE  /\ \A S \in SUBSET Sale : /\ Tape(sale, S, 0, Last) = CompletedIn(sale, S)
                                    /\ PdfTape(sale, S, 0, Last) = CompletedIn(sale, S)
           /\ Booked(CalmBooks, 0, Last) = -Net(SalesJournal, {"4000", "2100"})
           /\ NetVat(CalmBooks, 0, Last) = -Net(SalesJournal, {"2100"})
<1>1. \A t \in Sale : sale[t].done \in 0 .. MaxTime /\ sale[t].created \in 0 .. MaxTime
  BY DEF DeskInv, TypeOK, SaleRow
<1>2. \A t \in Sale : ShopDay(sale[t].done) \in 0 .. Last /\ UtcDay(sale[t].created) \in 0 .. Last
  BY <1>1, DaysOrdered
<1>3. Between(journal, 0, Last) = journal
  BY WholeJournal
<1>4. Between(SalesJournal, 0, Last) = SalesJournal /\ Between(CalmBooks, 0, Last) = CalmBooks
  BY <1>3 DEF Between, SalesJournal, CalmBooks, About
<1>5. Booked(CalmBooks, 0, Last) = -Net(SalesJournal, {"4000", "2100"})
  BY <1>4, CalmSales DEF Booked
<1>6. NetVat(CalmBooks, 0, Last) = -Net(SalesJournal, {"2100"})
  BY <1>4, VatIsOfSales DEF NetVat
<1>7. ASSUME NEW S \in SUBSET Sale
      PROVE  /\ Tape(sale, S, 0, Last) = CompletedIn(sale, S)
             /\ PdfTape(sale, S, 0, Last) = CompletedIn(sale, S)
  BY <1>2 DEF Tape, PdfTape, CompletedIn
<1> QED
  BY <1>5, <1>6, <1>7

\* One day, when the clocks of the shop and of UTC agree on every sale and none was voided.
LEMMA OneDay ==
    ASSUME DeskInv, NEW d \in Day,
           \A t \in Sale : sale[t].status # "none" =>
              /\ ~AtNight(sale[t].done) /\ sale[t].status # "voided"
              /\ ShopDay(sale[t].done) = UtcDay(sale[t].created)
    PROVE  /\ Gross(sale, Tape(sale, Calm, d, d)) = Booked(CalmBooks, d, d)
           /\ PdfTape(sale, Sale, d, d) = Tape(sale, Sale, d, d)
<1> DEFINE E == Between(SalesJournal, d, d)
           C == Tape(sale, Calm, d, d)
<1>1. \A t \in Sale : sale[t].done \in 0 .. MaxTime /\ sale[t].created \in 0 .. MaxTime
  BY DEF DeskInv, TypeOK, SaleRow
<1>2. \A t \in Sale : /\ ShopDay(sale[t].done) \in Int /\ UtcDay(sale[t].created) \in Int
                      /\ UtcDay(sale[t].done) \in Int
  BY <1>1 DEF ShopDay, UtcDay
<1>3. d \in Int /\ \A x \in Int : x \in d .. d <=> x = d
  BY DaysOrdered
<1>4. C = {t \in Calm : sale[t].status = "completed" /\ ShopDay(sale[t].done) = d}
  BY <1>2, <1>3 DEF Tape, CompletedIn, Calm
<1>5. PdfTape(sale, Sale, d, d) = {t \in Sale : sale[t].status = "completed"
                                                /\ UtcDay(sale[t].created) = d}
  BY <1>2, <1>3 DEF PdfTape, CompletedIn
<1>6. PdfTape(sale, Sale, d, d) = Tape(sale, Sale, d, d)
  BY <1>2, <1>3, <1>5 DEF Tape, CompletedIn
<1>7. /\ SalesJournal \in SUBSET journal /\ E \in SUBSET journal
      /\ \A e \in E : e.ref \in Sale
  BY DEF SalesJournal, About, Between, Calm
<1>8. C \in SUBSET Sale
  BY <1>4 DEF Calm
<1>9. ASSUME NEW e \in SalesJournal
      PROVE  /\ e.ref \in Calm /\ sale[e.ref].status = "completed"
             /\ e.day = ShopDay(sale[e.ref].done) /\ e.day \in Int
  <2>1. e \in journal /\ e.type \in {"transaction", "void"} /\ OfSale(e) /\ e.ref \in Calm
    BY DEF SalesJournal, About, DeskInv, SaleBooks
  <2>2. PICK t : t = e.ref
    OBVIOUS
  <2>3. t \in Sale /\ t \notin crossed /\ sale[t].status \in {"completed", "voided"}
    BY <2>1, <2>2 DEF OfSale, Calm
  <2>4. sale[t].status = "completed" /\ ~AtNight(sale[t].done)
    BY <2>3
  <2>5. e.day = UtcDay(sale[t].done)
    BY <2>1, <2>2, <2>3, <2>4 DEF OfSale
  <2>6. e.day = ShopDay(sale[t].done)
    BY <2>4, <2>5 DEF AtNight
  <2> QED
    BY <1>2, <2>1, <2>2, <2>3, <2>4, <2>6
<1>10. ASSUME NEW t \in Sale
       PROVE  Net(Of(E, t), {"4000", "2100"}) = IF t \in C THEN -Totals[t] ELSE 0
  <2>1. CASE t \in C
    <3>1. t \in Calm /\ sale[t].status = "completed" /\ ShopDay(sale[t].done) = d
      BY <1>4, <2>1
    <3>2. \A e \in SaleEntries(t) : e \in SalesJournal /\ e.ref = t
      BY <3>1 DEF SaleEntries, SalesJournal, About
    <3>3. \A e \in SaleEntries(t) : e.day = d
      BY <1>9, <3>1, <3>2
    <3>4. Of(E, t) = SaleEntries(t)
      BY <1>3, <3>1, <3>3 DEF Of, Between, SalesJournal, SaleEntries, About
    <3>5. Net(SaleEntries(t), {"4000", "2100"}) = -Totals[t]
      BY <3>1, SaleTakes
    <3> QED
      BY <2>1, <3>4, <3>5
  <2>2. CASE t \notin C
    <3>1. ASSUME NEW e \in Of(E, t) PROVE FALSE
      <4>1. e \in SalesJournal /\ e.ref = t /\ e.day >= d /\ e.day <= d
        BY DEF Of, Between
      <4>2. t \in Calm /\ sale[t].status = "completed" /\ e.day = ShopDay(sale[t].done) /\ e.day \in Int
        BY <1>9, <4>1
      <4>3. e.day = d
        BY <1>3, <4>1, <4>2
      <4> QED
        BY <1>4, <2>2, <4>2, <4>3
    <3>2. Of(E, t) = {}
      BY <3>1
    <3> QED
      BY <2>2, <3>2, NetOfNone
  <2> QED
    BY <2>1, <2>2
<1>11. /\ \A t \in C : Totals[t] \in Int
       /\ Gross(sale, C) = SumFunctionOnSet(Totals, C)
  BY <1>8, ReportsSum
<1>12. Booked(CalmBooks, d, d) = -Net(E, {"4000", "2100"})
  BY CalmSales DEF Booked
<1> HIDE DEF C, E
<1>13. -Net(E, {"4000", "2100"}) = SumFunctionOnSet(Totals, C)
  BY <1>7, <1>8, <1>10, <1>11, SalesNet
<1>14. Gross(sale, C) = Booked(CalmBooks, d, d)
  BY <1>11, <1>12, <1>13
<1> QED
  BY <1>6, <1>14 DEF C

LEMMA TapesFromInv == DeskInv => TapesMatchBooks
<1> SUFFICES ASSUME DeskInv PROVE TapesMatchBooks
  OBVIOUS
<1>1. (\A q \in Period : period[q].status \in {"none", "open"}) => Unreversed \ crossed = {}
  BY DEF DeskInv, VoidsTell
<1>2. Calm \in SUBSET Sale
  BY DEF Calm
<1>3. /\ Tape(sale, Calm, 0, Last) = CompletedIn(sale, Calm)
      /\ Tape(sale, Sale, 0, Last) = PdfTape(sale, Sale, 0, Last)
  BY <1>2, AllDays
<1>4. /\ Gross(sale, CompletedIn(sale, Calm)) + Gross(sale, Unreversed \ crossed)
            = Booked(CalmBooks, 0, Last)
      /\ VatCollected(sale, CompletedIn(sale, Calm)) + VatCollected(sale, Unreversed \ crossed)
            = NetVat(CalmBooks, 0, Last)
  BY AllDays, SalesBooked
<1>5. ASSUME \A t \in {u \in Sale : sale[u].status # "none"} :
                /\ ~AtNight(sale[t].done) /\ sale[t].status # "voided"
                /\ ShopDay(sale[t].done) = UtcDay(sale[t].created),
             NEW d \in Day
      PROVE  /\ Gross(sale, Tape(sale, Calm, d, d)) = Booked(CalmBooks, d, d)
             /\ PdfTape(sale, Sale, d, d) = Tape(sale, Sale, d, d)
  <2>1. \A t \in Sale : sale[t].status # "none" =>
           /\ ~AtNight(sale[t].done) /\ sale[t].status # "voided"
           /\ ShopDay(sale[t].done) = UtcDay(sale[t].created)
    BY <1>5
  <2> QED
    BY <2>1, OneDay
<1> QED
  BY <1>1, <1>3, <1>4, <1>5 DEF TapesMatchBooks, Calm, CalmBooks

\* The day reports and the PDF reports of routers/reports.py agree with the ledger
\* and its VAT summary over all days, and day by day where the clocks agree, but
\* for crossed sales: those a confirmation, a failure or a void wrote over.
THEOREM TapesAgree == Spec => []TapesMatchBooks
  BY DeskHolds, TapesFromInv, PTL

=============================================================================
