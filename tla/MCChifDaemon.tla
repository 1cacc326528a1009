---------------------------- MODULE MCChifDaemon ----------------------------
(* One packet of every kind the loop tells apart.                           *)
EXTENDS ChifDaemon

MCScript ==
    <<[size |-> "whole", service |-> "rom",   command |-> 3],
      [size |-> "whole", service |-> "smif",  command |-> 3],
      [size |-> "empty", service |-> "smif",  command |-> 3],
      [size |-> "whole", service |-> "rom",   command |-> 9],
      [size |-> "short", service |-> "smif",  command |-> 3],
      [size |-> "whole", service |-> "other", command |-> 3],
      [size |-> "whole", service |-> "health", command |-> 29]>>

MCRomCommands == {3, 4, 5, 6, 7, 12}
=============================================================================
