----------------------------- MODULE MCHttpApi ------------------------------
(* Values for model checking HttpApi: the requests that can be sent. *)
EXTENDS HttpApi, TLC

Tenants == {"m1", "m2"}
Keyring ==
    [full  |-> NewApiKey("m1", "secret"),
     read  |-> [NewApiKey("m1", "secret") EXCEPT
                   !.scopes = {"orders:read", "payments:read", "a_scope_of_yesterday"}],
     gone  |-> [NewApiKey("m1", "secret") EXCEPT !.revoked = TRUE],
     page  |-> NewApiKey("m1", "publishable"),
     other |-> NewApiKey("m2", "secret")]
Resources == [order |-> "m1", payment |-> "m1", endpoint |-> "m1"]

\* What a header holds.
Header(token) == [bytes |-> 79, ascii |-> TRUE, scheme |-> "bearer", token |-> token]
As(k) == <<Header(Generated(Keyring[k].kind, k))>>
NewKey(name) == [ascii |-> TRUE, bytes |-> 36, graphic |-> TRUE, name |-> name]
Rid(n) == [bytes |-> n, plain |-> TRUE, id |-> "trace"]

\* A good request, and one that differs from it.
Good(r, id) ==
    [route |-> r, id |-> id, auth |-> As("full"), key |-> None, rid |-> None, body |-> "good",
     query |-> "good", content |-> "a", bulky |-> FALSE, currency |-> TRUE, cvc |-> None,
     testCard |-> TRUE, url |-> [bytes |-> 30, absolute |-> TRUE, scheme |-> "https",
                                 host |-> TRUE, credentials |-> FALSE, fragment |-> FALSE],
     events |-> <<>>]
But(call, changes) == changes @@ call
Keyed(call) == But(call, [key |-> NewKey("k")])

Order    == Good("orders_create", None)
Pay      == Good("payments_create", "order")
Register == Good("endpoints_create", None)
Unhook   == Good("endpoints_disable", "endpoint")

\* Requests of which each may meet any other.
Calls ==
    [order      |-> Keyed(Order),
     orderAgain |-> But(Keyed(Order), [rid |-> Rid(20)]),
     orderOther |-> But(Keyed(Order), [auth |-> As("other")]),
     orderRead  |-> But(Keyed(Order), [auth |-> As("read")]),
     orderEdit  |-> But(Keyed(Order), [content |-> "b", currency |-> FALSE]),
     orderBulky |-> But(Keyed(Order), [content |-> "c", bulky |-> TRUE, rid |-> Rid(4)]),
     orderShape |-> But(Keyed(Order), [content |-> "d", body |-> "wrong_shape"]),
     orderLarge |-> But(Keyed(Order), [content |-> "e", body |-> "too_large"]),
     orderType  |-> But(Order, [body |-> "untyped"]),
     shortKey   |-> But(Order, [key |-> [NewKey("k") EXCEPT !.bytes = 7]]),
     blankKey   |-> But(Order, [key |-> [NewKey("k") EXCEPT !.bytes = 0]]),
     gone       |-> But(Keyed(Order), [auth |-> As("gone")]),
     nobody     |-> But(Keyed(Order), [auth |-> <<>>]),
     twice      |-> But(Keyed(Order), [auth |-> As("full") \o As("full")]),
     browser    |-> But(Keyed(Order), [auth |-> As("page")]),
     pay        |-> Keyed(Pay),
     payAgain   |-> Keyed(Pay),
     payBulky   |-> But(Keyed(Pay), [content |-> "f", bulky |-> TRUE]),
     payCvc     |-> But(Pay, [cvc |-> [bytes |-> 2, digits |-> TRUE]]),
     payReal    |-> But(Pay, [testCard |-> FALSE]),
     payOther   |-> But(Keyed(Pay), [auth |-> As("other")]),
     capture    |-> Keyed(Good("payments_capture", "payment")),
     refund     |-> Good("refunds_create", "payment"),
     refundNone |-> Good("refunds_create", "malformed"),
     refunds    |-> Good("refunds_list", "payment"),
     orders     |-> But(Good("orders_list", None), [query |-> "out_of_range"]),
     events     |-> But(Good("events_list", None), [query |-> "unknown_field"]),
     get        |-> But(Good("orders_get", "order"), [auth |-> As("other")]),
     getOdd     |-> Good("orders_get", "undecodable"),
     register   |-> Register,
     register2  |-> Register,
     register3  |-> But(Register, [events |-> <<[bytes |-> 16, shaped |-> TRUE],
                                                [bytes |-> 16, shaped |-> TRUE]>>]),
     remove     |-> Unhook,
     removeSame |-> Keyed(Unhook),
     removeOf   |-> But(Unhook, [auth |-> As("other")]),
     unknown    |-> Keyed(Good("unknown_endpoint", None)),
     verb       |-> Good("method_not_allowed", None),
     nowhere    |-> Good("nowhere", None),
     preflight  |-> Good("preflight", None),
     live       |-> Good("live", None),
     health     |-> Good("health", None)]

=============================================================================
