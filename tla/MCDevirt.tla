------------------------------- MODULE MCDevirt -------------------------------
EXTENDS Devirt

Info(type, local, taken, decl, name) ==
    [type |-> type, local |-> local, taken |-> taken, decl |-> decl, name |-> name]

\* Functions of type T: two in this module, one of them static, one whose
\* address nobody takes, one elsewhere, one of the verifier. One of type U.
Funcs == <<"d", "f", "main", "g", "h", "k", "s">>
Infos ==
    ("f" :> Info("T", FALSE, TRUE, FALSE, "plain")) @@
    ("g" :> Info("T", TRUE, TRUE, FALSE, "plain")) @@
    ("h" :> Info("T", TRUE, FALSE, FALSE, "plain")) @@
    ("d" :> Info("T", FALSE, TRUE, TRUE, "plain")) @@
    ("k" :> Info("U", FALSE, FALSE, FALSE, "plain")) @@
    ("s" :> Info("T", FALSE, TRUE, FALSE, "verifier")) @@
    ("main" :> Info("T", FALSE, FALSE, FALSE, "main"))

x == <<"x">>
p == <<"p">>
q == <<"q">>
r1 == <<"r1">>
r2 == <<"r2">>
c1 == <<"c1">>
c2 == <<"c2">>

CallOf(id, lhs, callee, args) ==
    [op |-> "call", id |-> id, lhs |-> lhs, callee |-> callee, args |-> args]
Phi(lhs, inc) == [lhs |-> lhs, inc |-> inc]
Branch(cond, d1, d2) == [op |-> "condbr", succs |-> <<d1, d2>>, cond |-> cond]
Return(o) == [op |-> "ret", succs |-> <<>>, cond |-> o]
Invoke(call, normal, unwind) ==
    [op |-> "invoke", succs |-> <<normal, unwind>>, cond |-> Undef, call |-> call]

Fn(code, phis, term) ==
    LET AndNone(m) == [b \in DOMAIN term |-> IF b \in DOMAIN m THEN m[b] ELSE <<>>]
    IN  [code |-> AndNone(code), phis |-> AndNone(phis), term |-> term]
None == [b \in {} |-> <<>>]

l == <<"l">>
m == <<"m">>
u == <<"u">>
z == <<"z">>

\* r1 = p(x); r2 = q(r1); return r2
Straight == Fn(Entry :> <<CallOf(c1, r1, V(p), <<V(x)>>), CallOf(c2, r2, V(q), <<V(r1)>>)>>,
               None, Entry :> Return(V(r2)))

\* The second call is through the result of the first.
Chained == Fn(Entry :> <<CallOf(c1, r1, V(p), <<V(x)>>), CallOf(c2, r2, V(r1), <<V(p)>>)>>,
              None, Entry :> Return(V(r2)))

\* if (x) r1 = p(x); return phi(r1, x)
Joined == Fn(l :> <<CallOf(c1, r1, V(p), <<V(x)>>)>>,
             m :> <<Phi(z, l :> V(r1) @@ Entry :> V(x)), Phi(q, l :> V(p) @@ Entry :> V(q))>>,
             Entry :> Branch(V(x), l, m) @@ l :> Br(m) @@ m :> Return(V(z)))

\* do r1 = z(q); q = r1 while (r1), with a phi node of its own value
Looping == Fn(l :> <<CallOf(c1, r1, V(p), <<V(z)>>)>>,
              l :> <<Phi(z, Entry :> V(x) @@ l :> V(r1)), Phi(u, Entry :> V(q) @@ l :> V(z))>>,
              Entry :> Br(l) @@ l :> Branch(V(r1), l, m) @@ m :> Return(V(u)))

\* Two calls that may throw, with one landing pad.
Invoking ==
    Fn(Entry :> <<>>,
       l :> <<Phi(z, Entry :> V(r1))>> @@
       u :> <<Phi(q, Entry :> V(x) @@ l :> V(z))>> @@
       m :> <<Phi(<<"o">>, l :> V(r2))>>,
       Entry :> Invoke(CallOf(c1, r1, V(p), <<V(x)>>), l, u) @@
       l :> Invoke(CallOf(c2, r2, V(p), <<V(z)>>), m, u) @@
       m :> Return(V(<<"o">>)) @@ u :> Return(V(q)))

\* A call that may throw in a loop, and one of inline assembly.
Retrying ==
    Fn(Entry :> <<CallOf(c2, r2, Asm, <<V(x)>>)>>,
       l :> <<Phi(z, Entry :> V(x) @@ l :> V(r1) @@ u :> V(r2))>> @@
       u :> <<Phi(<<"o">>, l :> V(z))>>,
       Entry :> Br(l) @@ l :> Invoke(CallOf(c1, r1, V(p), <<V(z)>>), l, u) @@
       u :> Branch(V(<<"o">>), l, m) @@ m :> Return(V(z)))

\* A result that nobody uses, and a direct call.
Unused == Fn(Entry :> <<CallOf(c1, r1, V(p), <<V(x)>>), CallOf(c2, r2, F("k"), <<V(x)>>)>>,
             None, Entry :> Return(V(r2)))

Site == [type |-> "T", cast |-> "", asm |-> FALSE, complete |-> FALSE, dsa |-> {}]

Args(ps) == {p :> a @@ q :> b @@ x :> v : a \in ps, b \in ps, v \in {"0", "1"}}

Program(fn1, s1, s2, resolver, incomplete, max, ps) ==
    [funcs |-> Funcs, info |-> Infos, fn |-> fn1, order |-> <<c1, c2>>,
     site |-> c1 :> s1 @@ c2 :> s2, resolver |-> resolver, incomplete |-> incomplete,
     max |-> max, params |-> Args(ps),
     results |-> IF fn1 = Chained THEN {"f", "d", "k"}
                 ELSE IF fn1 \in {Invoking, Retrying} THEN {"0", "1", "throw"}
                 ELSE {"0", "1"}]

AllFns == {Straight, Chained, Joined, Looping, Invoking, Retrying, Unused}

\* Inline assembly is the second call of Retrying.
Second(fn1, s) == IF fn1 = Retrying THEN [s EXCEPT !.asm = TRUE, !.dsa = {}] ELSE s

ByTypes ==
    {Program(g, [Site EXCEPT !.type = t, !.cast = c], Second(g, s2), "types", FALSE, 0, {"f", "g", "d", "s", "k"}) :
        g \in AllFns, t \in {"T", "U"}, c \in {"", "T"}, s2 \in {Site, [Site EXCEPT !.type = "W"]}}

ByDsa ==
    {Program(g, [Site EXCEPT !.dsa = d1, !.complete = c1d], Second(g, [Site EXCEPT !.dsa = d2]),
             "sea-dsa", i, n, {"f", "g", "d"}) :
        g \in AllFns, d1 \in {{}, {"f"}, {"f", "g", "d"}}, c1d \in BOOLEAN,
        d2 \in {{"g"}, {"f", "d"}}, i \in BOOLEAN, n \in {1, 3}}

MCPrograms == ByTypes \cup ByDsa
=============================================================================
