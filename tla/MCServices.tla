------------------------------ MODULE MCServices ------------------------------
\* Services beside the filing core: credentials, uploads and clearing, the media
\* child process, settings, the provider's choice and the Ollama daemon.  They
\* share no state: part says which of them a behaviour follows, and the others
\* rest in one initial state.
EXTENDS SignIn, Uploads, MediaJob, Settings, Provider, Ollama

CONSTANTS b1

VARIABLE part

Parts == {"signin", "uploads", "media", "settings", "provider", "ollama"}

allVars == <<part, signVars, uploadVars, mediaVars, settingsVars, providerVars, ollamaVars>>

ServicesInit ==
    /\ part \in Parts
    /\ SignInit /\ UploadInit
    /\ MediaInit /\ (part # "media" => isolated /\ large)
    /\ SettingsInit /\ (part # "settings" => setFile = NoText)
    /\ ProviderInit /\ (part # "provider" => chosen = b1)
    /\ OllamaInit /\ (part # "ollama" => daemon = "down")

\* A step of one part.
Of(p, A) == part = p /\ A /\ part' = part
OfMedia(A) ==
    Of("media", A) /\ UNCHANGED <<signVars, uploadVars, settingsVars, providerVars, ollamaVars>>

ServicesNext ==
    \/ /\ Of("signin", SignNext)
       /\ UNCHANGED <<uploadVars, mediaVars, settingsVars, providerVars, ollamaVars>>
    \/ /\ Of("uploads", UploadNext)
       /\ UNCHANGED <<signVars, mediaVars, settingsVars, providerVars, ollamaVars>>
    \/ OfMedia(MediaNext)
    \/ /\ Of("settings", SettingsNext)
       /\ UNCHANGED <<signVars, uploadVars, mediaVars, providerVars, ollamaVars>>
    \/ /\ Of("provider", ProviderNext)
       /\ UNCHANGED <<signVars, uploadVars, mediaVars, settingsVars, ollamaVars>>
    \/ /\ Of("ollama", OllamaNext)
       /\ UNCHANGED <<signVars, uploadVars, mediaVars, settingsVars, providerVars>>

\* The caller of a media job polls, a signal arrives, a reader empties the pipe.
ServicesSpec ==
    /\ ServicesInit /\ [][ServicesNext]_allVars
    /\ WF_allVars(OfMedia(CallerStep)) /\ WF_allVars(OfMedia(Die))
    /\ WF_allVars(OfMedia(SendRest)) /\ WF_allVars(OfMedia(SendBreaks))
===============================================================================
