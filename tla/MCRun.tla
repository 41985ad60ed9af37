------------------------------- MODULE MCRun -------------------------------
(***************************************************************************)
(* An exclusive suite and two others, with a part of their options, and    *)
(* with arguments and configurations that are right, wrong, or right for   *)
(* other suites only.                                                      *)
(***************************************************************************)
EXTENDS RunCmd, TLC

MCRegistered == {"density", "network", "footprint"}
MCExclusive == {"density"}
MCHoused == {"density", "network"}

MCSchema ==
  [density |-> [batchSize |-> Scalar("10"),
                vmi |-> Nested([memory |-> Scalar("90Mi"), cpu |-> Scalar("100m")])],
   network |-> [iPerfServerPort |-> Scalar("22865")],
   footprint |-> NoOptions,
   global |-> [monitoringNamespace |-> Scalar("cattle-monitoring-system"),
               namespaceReadyTimeout |-> Scalar("300s")]]

\* The paths that network derives from toolsDir stand here as that.
MCFields ==
  [density |-> [batchSize |-> {}, maxVMs |-> {}, namespaceReadyTimeout |-> {},
                vmi |-> {"memory", "cpu"}],
   network |-> [iPerfServerPort |-> {}, namespaceReadyTimeout |-> {}, toolsDir |-> {}],
   footprint |-> [monitoringNamespace |-> {}]]

MCArgs == {<<"density", "density">>, <<"network", "footprint", "network">>,
           <<"footprint", "density">>, <<"network", "typo">>}

Keys(names, look) == {<<name, look>> : name \in names}

\* Every option of a section, in some spelling, with the same value.
All(names, look, value) == [k \in Keys(names, look) |-> Scalar(value)]

MCConfigs ==
  {NoOptions,
   "density" :> (<<"vmi", "UPPER">> :> Nested(All({"memory"}, "kebab", "1Gi"))
                   @@ All({"batchSize"}, "snake", "3")),
   "density" :> (All({"batchSize"}, "snake", "3") @@ All({"batchSize"}, "kebab", "4")),
   "density" :> (<<"vmi", "camel">> :> Nested(All({"typo"}, "camel", "1"))),
   "density" :> (<<"vmi", "camel">> :> Scalar("1")),
   "density" :> All({"batchSize"}, "camel", "none"),
   "density" :> All({"maxVMs"}, "camel", "5"),
   [network |-> All({"iPerfServerPort"}, "kebab", "5201"),
    global |-> All({"monitoringNamespace", "namespaceReadyTimeout"}, "UPPER", "60s")],
   "global" :> All({"monitoringNamespace"}, "camel", "none")}

MCBad == {"none"}
MCNamespaces == {"default", "custom"}
=============================================================================
