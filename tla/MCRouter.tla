------------------------------ MODULE MCRouter ------------------------------
(* Router for TLC: two paths and a parameter, with and without a slash,    *)
(* two virtual hosts and a prefix.                                         *)
EXTENDS Router

CONSTANTS A, V, X

Url(path, slash) == [path |-> path, slash |-> slash]

Declare(name, pattern, methods, claimed) ==
    [name |-> name, pattern |-> pattern, dynamic |-> IsDynamic(pattern),
     methods |-> methods, hosts |-> claimed, to |-> <<>>]

Request(method, url, host) == [method |-> method, url |-> url, host |-> host]

Home == Declare("home", Url(<<A>>, FALSE), {"GET", "POST"}, <<>>)
Index == Declare("index", Url(<<A>>, TRUE), {"GET"}, <<>>)
Form == Declare("form", Url(<<A>>, TRUE), {"POST"}, <<>>)
Product == Declare("product", Url(<<Param>>, FALSE), {"GET"}, <<>>)
Docs == Declare("docs", Url(<<A>>, FALSE), {"GET"}, <<{"docs"}>>)
Page == Declare("page", Url(<<Param>>, TRUE), {"GET"}, <<{"docs"}>>)
Mirror == Declare("mirror", Url(<<A>>, TRUE), {"GET"}, <<{"docs", "mirror"}, {"mirror"}>>)

AllStrategies == {"STRICT", "REDIRECT", "CLONE"}
AllDeclared == {Home, Index, Form, Product, Docs, Page, Mirror}
AllPrefixes == {<<<<>>>>, <<<<>>, <<V>>>>, <<<<V>>>>}
AllRequests ==
    {Request(m, Url(<<A>>, s), h) : m \in {"GET", "POST"}, s \in BOOLEAN, h \in {"docs", "mirror"}}
        \cup {Request("GET", Url(<<V, A>>, TRUE), "docs"), Request("GET", Url(<<X>>, FALSE), "other"),
              Request("GET", Url(<<A>>, TRUE), "other"), Request("GET", Url(<<A>>, FALSE), NoHost)}
=============================================================================
