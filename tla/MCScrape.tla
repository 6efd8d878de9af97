------------------------------ MODULE MCScrape ------------------------------
(* Instances of Scrape for TLC.  The programs are those of the collectors   *)
(* of the same name, shortened to the steps that interleave differently.    *)
EXTENDS Scrape, TLC

CONSTANTS s1, s2, bgpl2vpn, status, peer1, peer2

\* One scrape: bgpl2vpn asks for the summary, runs through two peers and asks
\* each for the routes advertised, emits peer_types_up, asks zebra for the
\* VNIs and emits those; status never fails.
FanProgram == bgpl2vpn :> <<"ask", "fan", "emit", "ask", "emit">>
                @@ status :> <<"try", "emit">>
FanFanout  == bgpl2vpn :> {peer1, peer2} @@ status :> {}

\* Two concurrent scrapes of one collector.
TwinProgram == bgpl2vpn :> <<"ask", "fan">>
TwinFanout  == bgpl2vpn :> {peer1}
=============================================================================
