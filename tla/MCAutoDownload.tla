---------------------------- MODULE MCAutoDownload ----------------------------
(* Values of AutoDownload's constants for TLC.                             *)
EXTENDS AutoDownload

Hosts(os, Installations) ==
    [os : {os}, userDir : BOOLEAN, installed : Installations]

\* Every set of installed browsers on every system, without Tier 0.
DiscoverySetups ==
    [override : {"unset"}, tierZero : {FALSE}, supported : {TRUE},
     host : UNION {Hosts(os, SUBSET Findable(os)) : os \in Systems}]

\* Tier 0, with a browser installed and without.
DownloadSetups ==
    [override : {"unset"}, tierZero : {TRUE}, supported : {TRUE},
     host : Hosts("linux", {{}, {LinuxCandidates[1]}}) \cup Hosts("windows", {{}})]

OtherSetups ==
    [override : {"unset", "exists", "missing"}, tierZero : BOOLEAN, supported : {FALSE},
     host : Hosts("linux", {{}, {LinuxCandidates[4]}})]

AllSetups == DiscoverySetups \cup DownloadSetups \cup OtherSetups
==============================================================================
