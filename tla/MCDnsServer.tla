----------------------------- MODULE MCDnsServer -----------------------------
(* Instances of DnsServer for TLC. *)
EXTENDS DnsServer

MCDomains == <<<<"d1">>, <<"d2">>>>
MCSuffixPairs == {<<"myd1", "d1">>}

\* Lines that end with a carriage return, and lines that do not.
L(name, type, data) == [name |-> name, type |-> type, data |-> data, cr |-> TRUE]
LF(name, type, data) == [L(name, type, data) EXCEPT !.cr = FALSE]

\* The files of two domains: a host has two kinds of address, or one; the name
\* server of the second domain is not one of its hosts, or the file is missing.
\* The first file has carriage returns until it is edited.
FirstFile == <<L("@", "SOA", <<"soa1">>), L("@", "NS", <<"ns">>), L("@", "MX", <<"mail">>),
             L("ns", "A", <<"n", "1">>),
             L("www", "AAAA", <<"b", "1">>), L("www", "A", <<"a", "1">>)>>
FirstEdited == <<LF("@", "SOA", <<"soa1">>), LF("@", "NS", <<"ns">>), LF("ns", "A", <<"n", "1">>),
                 LF("www", "A", <<"e", "2">>)>>
SecondFile == <<L("@", "SOA", <<"soa2">>), L("@", "NS", <<"ns">>), LF("@", "TXT", <<"t2">>)>>

ServeFiles == <<<<FirstFile, SecondFile>>, <<FirstEdited, Unreadable>>>>
PlainFiles == <<<<FirstFile, FirstFile>>>>

A(name, type) == [name |-> name, type |-> type]
ServeAsks == {A(<<"www", "d1">>, "A"), A(<<"www", "d1">>, "AAAA"),
              A(<<"d1">>, "NS"), A(<<"d2">>, "SOA"), A(<<"d1">>, "TXT"), A(<<"d2">>, "MX"),
              A(<<"myd1">>, "A"), A(<<"other">>, "A"), A(<<"other">>, "MX")}
PlainAsks == {A(<<"www", "d1">>, "A"), A(<<"other">>, "A")}
TypesAsks == {A(<<"www", "d1">>, "A"), A(<<"d1">>, "MX")}
=============================================================================
