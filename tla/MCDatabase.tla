----------------------------- MODULE MCDatabase -----------------------------
EXTENDS Documents
Q == <<"\"">>
S(cs) == Q \o cs \o Q
MCTexts ==
  { <<"{">> \o S(<<"a">>) \o <<":", "null", ",">> \o S(<<"b">>) \o <<":", "true", "}">>,
    <<"{">> \o S(<<"a">>) \o <<":", "[", "1", ",", "16", ",", "17", "]", "}">>,
    <<"{">> \o S(<<"a">>) \o <<":", "{", "}", ",">> \o S(<<"b">>) \o <<":", "[", "]", "}">>,
    <<"{">> \o S(<<"\\", "\"">>) \o <<":">> \o S(<<"x", "\\", "\\", "\\", "n">>) \o <<"}">>,
    <<"{">> \o S(<<"a">>) \o <<":", "[", "1.0", ",", "0.5", ",", "19.5", "]", ",">> \o S(<<"c">>) \o <<":", "{">> \o S(<<"d">>) \o <<":", "false", "}", "}">> }
=============================================================================
