------------------------------ MODULE MCSkwAp ------------------------------
EXTENDS SkwAp

CONSTANTS m1, m2

Op(o, m, i) == [op |-> o, m |-> m, i |-> i]
Load(x, q, aid, s, ms, ops, u, a, g, d, f, n) ==
  [ext |-> x, q |-> q, aid |-> aid, max |-> s, macs |-> ms, ops |-> ops,
   auth |-> u, assoc |-> a, gone |-> g, dups |-> d, fails |-> f, nacks |-> n]
Start == Op("start", NoMac, 0)
Stop == Op("stop", NoMac, 0)
Key(i) == Op("key", NoMac, i)
DelKey == Op("delkey", NoMac, 0)
Kick == Op("kick", m1, 0)

\* hostapd's own state machine with stations that come, go and are refused; the internal one
\* against hostapd's requests, with lost replies, with two stations and few aids; keys.
KeyOps == {<<Key(1), Start, Key(2), DelKey, Key(3), Stop, Key(4), Start>>, <<Key(1), DelKey, Start>>,
           <<Key(1), Key(2), Key(3), Start>>, <<Key(1), Start, Stop, Key(2), Start>>}
MCLoads == {Load(TRUE, 2, 2, 1, {m1, m2}, <<Start, Kick, Stop>>, 2, 1, 1, 0, 1, 0),
            Load(FALSE, 2, 2, 2, {m1}, <<Start, Kick, Stop>>, 1, 1, 1, 0, 1, 0),
            Load(FALSE, 2, 2, 2, {m1}, <<Start>>, 2, 1, 0, 1, 1, 1),
            Load(FALSE, 1, 2, 2, {m1, m2}, <<Start>>, 2, 2, 0, 0, 0, 0),
            Load(FALSE, 1, 0, 2, {m1, m2}, <<Start>>, 2, 2, 0, 0, 0, 0),
            Load(TRUE, 2, 2, 1, {m1, m2}, <<Start>>, 3, 1, 1, 0, 0, 0),
            Load(FALSE, 2, 2, 2, {m1, m2}, <<Start, Kick>>, 2, 1, 0, 0, 0, 0)}
           \cup {Load(TRUE, 2, 2, 1, {}, ops, 0, 0, 0, 0, 1, 0) : ops \in KeyOps}
MCMacs == {m1, m2}
MCIdx == {0, 1}
=============================================================================
