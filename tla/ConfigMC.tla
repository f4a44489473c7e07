------------------------------ MODULE ConfigMC ------------------------------
(* Config with small inputs: up to three settings of a connection string, or the parts  *)
(* of a URI, also out of order, with the symbols that mean something to the parsers.     *)
EXTENDS Config

Styled(key, values, styles) == {Setting(key, v, st) : v \in values, st \in styles}

MCChars ==
  {"=", " ", "\t", "'", "\"", ":", "@", "/", "?", "%", "+", "&", "[", "]", "a", "b", "e'", "user"}
    \cup Seconds \cup SslModes \cup {"maybe"}

DsnUsers == Styled("user", {<<>>, <<"a">>, <<"a", " ", "b">>, <<"'">>, <<"\"", "=">>}, Quotes)

\* The last password, without quotes, is read as a second user; white space other than a
\* blank is a part of a value.
DsnOthers ==
  Styled("password", {<<>>, <<"=", "b">>, <<"\"", "a", "\"">>, <<"'", " ", "a">>, <<"a", "\t">>,
                      <<"a", " ", "\t", "user", "=", "b">>}, Quotes)
    \cup Styled("dbname", {<<>>, <<"a">>}, {"bare", "double"})
    \cup Styled("port", {<<"5433">>, <<"70000">>}, {"bare", "single"})
    \cup Styled("connect_timeout", {<<"70000">>}, {"bare"})
    \cup Styled("sslmode", {<<"require">>, <<"maybe">>, <<"prefer">>}, {"bare"})
    \cup Styled("other", {<<"'", "a">>}, {"double"})

MCDsnLists ==
  {<<u>> : u \in DsnUsers} \cup {<<o>> : o \in DsnOthers}
    \cup {<<u, o>> : u \in DsnUsers, o \in DsnOthers} \cup {<<o, u>> : u \in DsnUsers, o \in DsnOthers}
    \cup {<<Setting("user", <<"a">>, "bare"), o, p>> : o \in DsnOthers, p \in DsnOthers}

UriStyles == {"raw", "encoded"}

\* No setting, or one.
Maybe(settings) == { <<>> } \cup {<<s>> : s \in settings}

MCUriLists ==
  {u \o w \o h \o p \o d \o q :
     u \in Maybe(Styled("user", {<<"a">>, <<"@", ":">>, <<"%", "/">>, <<"e'">>}, UriStyles)),
     w \in Maybe(Styled("password", {<<>>, <<":", "?">>, <<"+", "a">>, <<"a", " ">>}, UriStyles)),
     h \in Maybe({Setting("host", v, "raw") : v \in { <<>>, <<"a">>, <<"[", ":", "]">>}}),
     p \in Maybe({Setting("port", <<n>>, "raw") : n \in {"5433", "70000"}}),
     d \in Maybe(Styled("dbname", {<<>>, <<"a", "@">>}, UriStyles)),
     q \in { <<>>, <<Setting("sslmode", <<"require">>, "raw")>>, <<Setting("sslmode", <<"maybe">>, "raw")>>,
              <<Setting("sslmode", <<"require">>, "raw"), Setting("other", <<"=", "@">>, "raw"),
                Setting("sslmode", <<"disable">>, "encoded")>> }
             \cup {<<Setting("connect_timeout", <<"70000">>, "raw"), s>> :
                     s \in Styled("application_name", {<<"a", "=", "&">>, <<"a", "?">>}, UriStyles)} }
    \cup {<<Setting("sslmode", <<"require">>, "raw"), p, u, Setting("other", <<"b">>, "encoded"), h>> :
            p \in Styled("port", {<<"5433">>, <<"a", "/">>}, UriStyles),
            u \in Styled("user", {<<"a", "?">>}, UriStyles),
            h \in Styled("host", {<<"a", "@">>, <<"b">>}, UriStyles)}

\* The environment has something for every field, or values that do not parse.
MCEnvs ==
  { [f \in Fields |-> CASE f = "port" -> <<"5433">> [] f = "connect_timeout" -> <<"5432">>
                        [] f = "sslmode" -> <<"disable">> [] OTHER -> <<"b">>],
    [f \in Fields |-> IF f \in {"port", "sslmode"} THEN <<"maybe">> ELSE Unset] }
=============================================================================
