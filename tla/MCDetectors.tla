----------------------------- MODULE MCDetectors -----------------------------
(* Detectors with one small vocabulary per family of commands: removals in *)
(* POSIX's and in PowerShell's spelling, pipelines, and the single words.  *)
EXTENDS Detectors

MCCommandWords ==
    {{"rm", "ri", "-r", "-f", "-rf", "-fr", "--recursive", "--force"},
     {"rm", "remove-item", "-recurse", "-rec", "-r", "-force", "-fo", "-f"},
     {"curl", "wget", "bash", "sh", "|", "unclosed"},
     {"iwr", "iex", "|", "unclosed", "curl", "rm"},
     {"sudo", "mkfs", "mkfs.ext4", "chmod", "777", "dd", "if="},
     {"start-process", "format-volume", "set-executionpolicy", "bypass",
      "sudo", "unclosed", "notes.txt"}}

MCPathWords == {".env", "id_rsa", ".aws", "credentials", "cert.pem", "src"}
=============================================================================
