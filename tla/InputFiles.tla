------------------------------ MODULE InputFiles ------------------------------
(***************************************************************************)
(* The input file of the programs and of the partitioner: what a file is   *)
(* read as, and what the partitioner writes into the file the parallel     *)
(* program is started with.  A node of a file is a function of the keys it *)
(* has; a result is a set, empty when reading ends with an exception.      *)
(***************************************************************************)
EXTENDS Integers, Sequences, SequencesExt

Has(node, key, keys) == key \in DOMAIN node /\ keys \subseteq DOMAIN node[key]
Get(node, key, default) == IF key \in DOMAIN node THEN node[key] ELSE default
Only(node, keys) == [k \in keys |-> node[k]]

(* A section without the keys it needs, or of a type nobody knows, is      *)
(* ignored with a warning.                                                 *)
SectionIf(node, key, keys, known) == IF known /\ Has(node, key, keys) THEN {Only(node[key], keys)} ELSE {}
IsOfType(node, key, type) == Has(node, key, {"type"}) /\ node[key]["type"] = type

(* The options of a problem: the set of a section's keys, {} for the       *)
(* default.                                                                *)
SWE_Inputs(node) ==
  LET Section(key, keys) == SectionIf(node, key, keys, TRUE)
      Typed(key, type, keys) == SectionIf(node, key, {"type"} \cup keys, IsOfType(node, key, type))
      Enabled(key) == IF key \in DOMAIN node /\ node[key] = "Enable" THEN {"Enable"} ELSE {}
      friction == Typed("bottom_friction", "Chezy", {"coefficient"}) \cup
                  Typed("bottom_friction", "Manning", {"coefficient", "input_file"})
      inputs ==
        [name |-> node["name"],
         gravity |-> Get(node, "gravity", "default"),
         density_air |-> Get(node, "density_air", "default"),
         density_water |-> Get(node, "density_water", "default"),
         spherical_projection |-> Section("spherical_projection", {"longitude_o", "latitude_o", "R"}),
         initial_conditions |->
           Typed("initial_conditions", "Constant",
                 {"initial_surface_height", "initial_momentum_x", "initial_momentum_y"}) \cup
           Typed("initial_conditions", "Function", {}),
         function_source |-> Enabled("function_source"),
         bottom_friction |-> friction,
         meteo_forcing |-> Section("meteo_forcing", {"type", "raw_input_file", "input_file", "frequency"}),
         tide_potential |-> Typed("tide_potential", "Test", {}),
         coriolis |-> Enabled("coriolis"),
         wetting_drying |-> Section("wetting_drying", {"h_o"}),
         slope_limiting |-> Typed("slope_limiting", "Cockburn-Shu", {"M", "nu"})]
  IN  IF \E f \in friction : f["coefficient"] = "negative" THEN {} ELSE {inputs}

SWE_Options == {"spherical_projection", "initial_conditions", "function_source", "bottom_friction",
                "meteo_forcing", "tide_potential", "coriolis", "wetting_drying", "slope_limiting"}

as_yaml_node(inputs) ==
  LET kept == {o \in SWE_Options : inputs[o] # {}}
  IN  [key \in {"name", "gravity", "density_air", "density_water"} \cup kept |->
         IF key \in kept THEN CHOOSE x \in inputs[key] : TRUE ELSE inputs[key]]

(* The shallow water and the Green-Naghdi programs read the problem node;  *)
(* the partitioner ("any") keeps it as it is.                              *)
problem_specific_ctor_helper(file, problem) ==
  LET node == file["problem"]
  IN  CASE problem = "any" -> {node}
        [] problem = "SWE" -> IF node["name"] \in {"rkdg_swe", "ehdg_swe", "ihdg_swe"}
                              THEN SWE_Inputs(node) ELSE {}
        [] problem = "GN" -> IF node["name"] \in {"ehdg_gn", "ihdg_gn"} THEN SWE_Inputs(node) ELSE {}

(* A section that may be left out, but not be incomplete.                  *)
Optional(node, key, keys) == IF key \in DOMAIN node THEN {Only(node[key], keys)} ELSE {}
Complete(node, key, keys) == key \in DOMAIN node => keys \subseteq DOMAIN node[key]

WithSlash(path) == IF path # << >> /\ Last(path) = "/" THEN path ELSE Append(path, "/")

WriterInput(file) ==
  IF "output" \notin DOMAIN file THEN {}
  ELSE LET out == file["output"]
       IN  {[path |-> WithSlash(out["path"]),
             logfile |-> Optional(out, "logfile", {"name", "verbose"}),
             vtk |-> Optional(out, "vtk", {"frequency"}),
             vtu |-> Optional(out, "vtu", {"frequency"}),
             modal |-> Optional(out, "modal", {"frequency"})]}

Accepted(file) ==
  /\ "polynomial_order" \in DOMAIN file
  /\ Has(file, "mesh", {"format", "file_name", "coordinate_system"})
  /\ file["mesh"]["format"] \in {"Adcirc", "Meta"}
  /\ file["mesh"]["coordinate_system"] \in {"cartesian", "polar", "spherical"}
  /\ Has(file, "timestepping", {"start_time", "end_time", "dt", "order", "nstages"})
  /\ "problem" \in DOMAIN file
  /\ Complete(file, "load_balancer", {"name", "rebalance_frequency"})
  /\ Complete(file, "output", {"path"})
  /\ "output" \in DOMAIN file =>
       /\ Complete(file["output"], "logfile", {"verbose", "name"})
       /\ \A kind \in {"vtk", "vtu", "modal"} : Complete(file["output"], kind, {"frequency"})

InputParameters(file, problem) ==
  IF ~Accepted(file) THEN {}
  ELSE {[polynomial_order |-> file["polynomial_order"],
         mesh |-> Only(file["mesh"], {"format", "file_name", "coordinate_system"}),
         timestepping |-> Only(file["timestepping"] @@ [ramp_duration |-> 0],
                               {"start_time", "end_time", "dt", "order", "nstages", "ramp_duration"}),
         problem |-> inputs,
         load_balancer |-> Optional(file, "load_balancer", {"name", "rebalance_frequency"}),
         output |-> WriterInput(file)] : inputs \in problem_specific_ctor_helper(file, problem)}

The(set) == CHOOSE x \in set : TRUE
Kept(record, keys) == [k \in {l \in keys : record[l] # {}} |-> The(record[k])]

(* Mutant: the writer section is kept without the log file.                *)
write_to_NoLogfile(params, problem_node) ==
  LET out == The(params.output)
  IN  [polynomial_order |-> params.polynomial_order, mesh |-> params.mesh,
       timestepping |-> params.timestepping, problem |-> problem_node]
      @@ Kept(params, {"load_balancer"})
      @@ (IF params.output = {} THEN << >>
          ELSE [output |-> [path |-> out.path] @@ Kept(out, {"vtk", "vtu", "modal"})])

(* The file the parameters are written to; sections left out of the input  *)
(* are left out again.                                                     *)
write_to(params, problem_node) ==
  LET out == The(params.output)
  IN  [polynomial_order |-> params.polynomial_order, mesh |-> params.mesh,
       timestepping |-> params.timestepping, problem |-> problem_node]
      @@ Kept(params, {"load_balancer"})
      @@ (IF params.output = {} THEN << >>
          ELSE [output |-> [path |-> out.path] @@ Kept(out, {"logfile", "vtk", "vtu", "modal"})])
===============================================================================
