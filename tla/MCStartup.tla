------------------------------ MODULE MCStartup ------------------------------
EXTENDS Startup

NoEntries == [key \in Keys |-> Absent]

Flags ==
  [config |-> {"path"}, socks_listen |-> {"addr"}, gateway |-> {"wss", "ws", "WSS", "other"},
   basic_auth |-> {"user:pass", "no colon"}, buffer_size |-> {"zero", "some"},
   custom_domain_rules |-> {"relative", "absolute"}, rule_refresh_interval_secs |-> {"zero", "some"},
   gfwlist_urls |-> {"blank", "some", "not http"}, proxy_mode |-> {"auto", "global"},
   insecure |-> {"true"}, http3 |-> {"off", "preferred", "only"}, auth_mode |-> {"token", "basic"},
   upstream_proxy |-> {"proxy", "blank", "invalid"}]

Entries == UNION {{k} \X Flags[k] : k \in DOMAIN Flags \ {"config"}}
FileEntries ==
  Entries \cup {<<"insecure", "false">>, <<"http3_only", "true">>, <<"http3_only", "false">>}

\* One entry on the command line and one in the file, of every kind.
Mixed ==
  {[flags |-> [NoEntries EXCEPT !["config"] = "path", ![f[1]] = f[2]],
    file  |-> [NoEntries EXCEPT ![e[1]] = e[2]]] : f \in Entries, e \in FileEntries}

\* Everything the start depends on, on the command line.
CommandLines ==
  {[flags |-> [NoEntries EXCEPT !["gateway"] = g, !["basic_auth"] = b, !["http3"] = h,
                                !["auth_mode"] = a, !["upstream_proxy"] = u,
                                !["socks_listen"] = s],
    file |-> NoEntries] :
     g \in Flags.gateway, b \in {Absent} \cup Flags.basic_auth, h \in Modes,
     a \in Flags.auth_mode, u \in {Absent, "proxy"},
     s \in {Absent, "addr"}}

MCInputs == Mixed \cup CommandLines
=============================================================================
