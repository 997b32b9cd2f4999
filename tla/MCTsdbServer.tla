---------------------------- MODULE MCTsdbServer ---------------------------
(* Uris and query parameters for instances of TsdbServer.                    *)
EXTENDS TsdbServerProps

Uri(words) == <<"">> \o words

StoreUris == {Uri(<<"read", "db", "s">>), Uri(<<"write", "db", "s">>)}

AllUris ==
  StoreUris \union
    {Uri(<<"read", "none", "s">>), Uri(<<"write", "none", "s">>), Uri(<<"read", "db">>),
     Uri(<<"read", "none">>), Uri(<<"lastvalue", "db", "s">>), Uri(<<"lastvalue", "none", "s">>),
     Uri(<<"lastvalue", "db">>), Uri(<<"read", "db", "s", "s">>), Uri(<<>>)}

AnyOffsets == -2 .. 2
=============================================================================
